---- MODULE Spec2Model ----
(***************************************************************************)
(* Model of the Adobe Express add-on's AI service wrapper                  *)
(* (my-addon/src/services/GroqClient.ts): credential handling, the TTL     *)
(* response cache, content moderation with its fail-open fallback, the     *)
(* retry/backoff executor and the four public operations.                  *)
(*                                                                         *)
(* Every asynchronous call is a process whose steps are the stretches of   *)
(* code between two awaits; the host runtime runs one such stretch at a    *)
(* time (cooperative scheduling), so each stretch is one atomic action.    *)
(* The LLM provider, the local classifiers, the clock and the browser's    *)
(* online flag are the environment: their answers are chosen with \E.      *)
(***************************************************************************)
EXTENDS Integers, Sequences, FiniteSets, TLC

(***************************************************************************)
(* Bounds of the model                                                     *)
(***************************************************************************)
\* clock advances in one behaviour
MaxTicks == 1
\* environment disturbances in one behaviour: a classifier that fails or
\* flags the content, a failed or defective completion, an abort
MaxFaults == 2
\* entries of primaryColors in a completion
MaxColors == 6
\* entries of designGuidelines in a completion
MaxGuides == 5
\* entries of feedback and of recommendations in a completion
MaxEntries == 6
\* handler runs of the BrandBrain component in one session
MaxRuns == 3
\* calls of addImageToDocument in one session
MaxImages == 3
\* createTextBox calls made on the sandbox
MaxBoxes == 2
\* message timers of the Settings panel that may be pending at once
MaxTimers == 2

\* const maxSize = 10 * 1024 * 1024 (About.tsx)
MaxImageSize == 10485760

(***************************************************************************)
(* Program constants                                                       *)
(***************************************************************************)
\* retryWithBackoff(operation, maxRetries = 3, baseDelay = 1000)
DefaultMaxRetries == 3
DefaultBaseDelay == 1000
\* Math.random() * 1000
JitterSpan == 1000
\* setCachedData(key, data, ttl = 30 * 60 * 1000)
DefaultTTL == 30 * 60 * 1000
\* btoa(websiteContent).slice(0, 50)
BrandKeyPrefix == 50
\* btoa(imageBase64).slice(0, 20)
ImageKeyPrefix == 20

NULL == "null"

(***************************************************************************)
(* Errors the environment can raise from an LLM request, as the fields     *)
(* categorizeError reads: status, code and message.                        *)
(***************************************************************************)
MkErr(s, c, m) == [status |-> s, code |-> c, message |-> m]

E429 == MkErr(429, NULL, "rate limit")
E401 == MkErr(401, NULL, "unauthorized")
E403 == MkErr(403, NULL, "forbidden")
E500 == MkErr(500, NULL, "internal error")
E503 == MkErr(503, NULL, "unavailable")
E400 == MkErr(400, NULL, "bad request")
EConnAborted == MkErr(0, "ECONNABORTED", "aborted")
ETimeoutMsg == MkErr(0, NULL, "timeout")
EPlain == MkErr(0, NULL, "network")
ENoMessage == MkErr(0, NULL, NULL)

\* status 0 stands for an error object without a status field
TransportErrors ==
  {E429, E401, E403, E500, E503, E400, EConnAborted, ETimeoutMsg, EPlain, ENoMessage}

\* the failures the transport raises in the model
MockErrors == {E429, E401, E403, E500, ETimeoutMsg, E400}

\* error?.message?.includes('timeout')
MessageHasTimeout(m) == m = "timeout"

MsgOffline == "No internet connection. Please check your network and try again."
MsgRateLimit == "Too many requests. Please wait a moment and try again."
MsgUnauthorized == "API key is invalid or expired. Please check your settings."
MsgForbidden == "Access denied. Please check your API key permissions."
MsgServer == "Server error. Please try again in a few moments."
MsgTimeout == "Request timed out. Please try again."
MsgUnexpected == "An unexpected error occurred. Please try again."

\* a categorizeError that also retries authentication failures
CategorizeErrorRetryAuth(error, online) ==
  IF ~online THEN [message |-> MsgOffline, isRetryable |-> TRUE]
  ELSE IF error.status = 429 THEN [message |-> MsgRateLimit, isRetryable |-> TRUE]
  ELSE IF error.status = 401 THEN [message |-> MsgUnauthorized, isRetryable |-> TRUE]
  ELSE IF error.status = 403 THEN [message |-> MsgForbidden, isRetryable |-> TRUE]
  ELSE IF error.status >= 500 THEN [message |-> MsgServer, isRetryable |-> TRUE]
  ELSE IF error.code = "ECONNABORTED" \/ MessageHasTimeout(error.message)
    THEN [message |-> MsgTimeout, isRetryable |-> TRUE]
  ELSE [message |-> IF error.message # NULL THEN error.message ELSE MsgUnexpected,
        isRetryable |-> TRUE]

\* a categorizeError that looks at the status before the connection
CategorizeErrorStatusFirst(error, online) ==
  IF error.status = 429 THEN [message |-> MsgRateLimit, isRetryable |-> TRUE]
  ELSE IF error.status = 401 THEN [message |-> MsgUnauthorized, isRetryable |-> FALSE]
  ELSE IF error.status = 403 THEN [message |-> MsgForbidden, isRetryable |-> FALSE]
  ELSE IF ~online THEN [message |-> MsgOffline, isRetryable |-> TRUE]
  ELSE IF error.status >= 500 THEN [message |-> MsgServer, isRetryable |-> TRUE]
  ELSE IF error.code = "ECONNABORTED" \/ MessageHasTimeout(error.message)
    THEN [message |-> MsgTimeout, isRetryable |-> TRUE]
  ELSE [message |-> IF error.message # NULL THEN error.message ELSE MsgUnexpected,
        isRetryable |-> TRUE]

\* categorizeError(error), with isOnline() passed as online
CategorizeError(error, online) ==
  IF ~online THEN [message |-> MsgOffline, isRetryable |-> TRUE]
  ELSE IF error.status = 429 THEN [message |-> MsgRateLimit, isRetryable |-> TRUE]
  ELSE IF error.status = 401 THEN [message |-> MsgUnauthorized, isRetryable |-> FALSE]
  ELSE IF error.status = 403 THEN [message |-> MsgForbidden, isRetryable |-> FALSE]
  ELSE IF error.status >= 500 THEN [message |-> MsgServer, isRetryable |-> TRUE]
  ELSE IF error.code = "ECONNABORTED" \/ MessageHasTimeout(error.message)
    THEN [message |-> MsgTimeout, isRetryable |-> TRUE]
  ELSE [message |-> IF error.message # NULL THEN error.message ELSE MsgUnexpected,
        isRetryable |-> TRUE]

(***************************************************************************)
(* retryWithBackoff as a machine over a record:                            *)
(*   phase   calling  : operation() is in flight                           *)
(*           waiting  : sleeping `delay` ms before the next attempt        *)
(*           resolved : returned `value`                                   *)
(*           rejected : threw the categorized error `error`                *)
(*   attempt the loop variable; calls counts operation() invocations.      *)
(***************************************************************************)
RECURSIVE Pow2(_)
Pow2(n) == IF n = 0 THEN 1 ELSE 2 * Pow2(n - 1)

\* the values Math.random() * JitterSpan is sampled at
Jitters == {0, JitterSpan \div 2, JitterSpan - 1}

\* what operation() resolved with: the invocation that produced it and its payload
MkValue(k, p) == [invocation |-> k, payload |-> p]
NoValue == MkValue(0, NULL)

\* entering the loop: attempt = 0 and the first operation() is invoked
RetryBegin(maxRetries, baseDelay) ==
  [phase |-> "calling", attempt |-> 0, calls |-> 1, delay |-> 0,
   maxRetries |-> maxRetries, baseDelay |-> baseDelay,
   value |-> NoValue, error |-> NULL, isRetryable |-> FALSE]

\* return await operation()
RetryResolve(rb, v) == [rb EXCEPT !.phase = "resolved", !.value = v]

\* a backoff whose delay does not grow with the attempt
RetryRejectFlatDelay(rb, err, online, jitter) ==
  LET cat == CategorizeError(err, online) IN
  IF ~cat.isRetryable \/ rb.attempt = rb.maxRetries
    THEN [rb EXCEPT !.phase = "rejected", !.error = cat.message,
                    !.isRetryable = cat.isRetryable]
    ELSE [rb EXCEPT !.phase = "waiting", !.delay = rb.baseDelay + jitter]

\* a loop that gives up one attempt early
RetryRejectOneShort(rb, err, online, jitter) ==
  LET cat == CategorizeError(err, online) IN
  IF ~cat.isRetryable \/ rb.attempt + 1 >= rb.maxRetries
    THEN [rb EXCEPT !.phase = "rejected", !.error = cat.message,
                    !.isRetryable = cat.isRetryable]
    ELSE [rb EXCEPT !.phase = "waiting",
                    !.delay = rb.baseDelay * Pow2(rb.attempt) + jitter]

\* the catch block: categorize, throw on a terminal error or on the last
\* attempt, else compute the delay and sleep
RetryReject(rb, err, online, jitter) ==
  LET cat == CategorizeError(err, online) IN
  IF ~cat.isRetryable \/ rb.attempt = rb.maxRetries
    THEN [rb EXCEPT !.phase = "rejected", !.error = cat.message,
                    !.isRetryable = cat.isRetryable]
    ELSE [rb EXCEPT !.phase = "waiting",
                    !.delay = rb.baseDelay * Pow2(rb.attempt) + jitter]

\* the timer fires: attempt++ and operation() is invoked again
RetryWake(rb) ==
  [rb EXCEPT !.phase = "calling", !.attempt = rb.attempt + 1, !.calls = rb.calls + 1]

RetryIdle ==
  [phase |-> "idle", attempt |-> 0, calls |-> 0, delay |-> 0,
   maxRetries |-> DefaultMaxRetries, baseDelay |-> DefaultBaseDelay,
   value |-> NoValue, error |-> NULL, isRetryable |-> FALSE]

(***************************************************************************)
(* Strings are sequences: of character codes where btoa reads them, of     *)
(* one-character strings where trim, startsWith and toUpperCase do.        *)
(***************************************************************************)
Min(a, b) == IF a < b THEN a ELSE b
Max(a, b) == IF a > b THEN a ELSE b

\* s.slice(0, n)
Slice(s, n) == SubSeq(s, 1, Min(n, Len(s)))

IsSpace(ch) == ch \in {" ", "\t", "\n"}

RECURSIVE TrimLeft(_)
TrimLeft(s) ==
  IF Len(s) > 0 /\ IsSpace(s[1]) THEN TrimLeft(Tail(s)) ELSE s

RECURSIVE TrimRight(_)
TrimRight(s) ==
  IF Len(s) > 0 /\ IsSpace(s[Len(s)]) THEN TrimRight(SubSeq(s, 1, Len(s) - 1)) ELSE s

\* s.trim()
Trim(s) == TrimRight(TrimLeft(s))

\* n copies of ch
Repeat(n, ch) == [i \in 1..n |-> ch]

\* the ASCII code of the base64 digit with value v (61 is the padding '=')
B64Code(v) ==
  IF v < 26 THEN 65 + v
  ELSE IF v < 52 THEN 97 + (v - 26)
  ELSE IF v < 62 THEN 48 + (v - 52)
  ELSE IF v = 62 THEN 43 ELSE 47

\* btoa throws InvalidCharacterError on a code above 255
BtoaThrows(s) == \E i \in 1..Len(s) : s[i] > 255

\* btoa(s): three bytes become four base64 digits
RECURSIVE Btoa(_)
Btoa(s) ==
  IF Len(s) = 0 THEN << >>
  ELSE IF Len(s) = 1 THEN
    << B64Code(s[1] \div 4), B64Code((s[1] % 4) * 16), 61, 61 >>
  ELSE IF Len(s) = 2 THEN
    << B64Code(s[1] \div 4), B64Code((s[1] % 4) * 16 + s[2] \div 16),
       B64Code((s[2] % 16) * 4), 61 >>
  ELSE
    << B64Code(s[1] \div 4), B64Code((s[1] % 4) * 16 + s[2] \div 16),
       B64Code((s[2] % 16) * 4 + s[3] \div 64), B64Code(s[3] % 64) >>
      \o Btoa(SubSeq(s, 4, Len(s)))

(***************************************************************************)
(* The inputs the operations are called with.  Texts are what the panel    *)
(* passes as websiteContent; images are JPEG files, which all begin with   *)
(* the same JFIF header and reach the client base64-encoded.               *)
(***************************************************************************)
\* "Acme Corp builds reliable industrial robots for car makers"
TextCarMakers ==
  << 65, 99, 109, 101, 32, 67, 111, 114, 112, 32, 98, 117, 105, 108, 100, 115, 32,
     114, 101, 108, 105, 97, 98, 108, 101, 32, 105, 110, 100, 117, 115, 116, 114,
     105, 97, 108, 32, 114, 111, 98, 111, 116, 115, 32, 102, 111, 114, 32, 99, 97,
     114, 32, 109, 97, 107, 101, 114, 115 >>

\* "Acme Corp builds reliable industrial robots for bakeries"
TextBakeries ==
  << 65, 99, 109, 101, 32, 67, 111, 114, 112, 32, 98, 117, 105, 108, 100, 115, 32,
     114, 101, 108, 105, 97, 98, 108, 101, 32, 105, 110, 100, 117, 115, 116, 114,
     105, 97, 108, 32, 114, 111, 98, 111, 116, 115, 32, 102, 111, 114, 32, 98, 97,
     107, 101, 114, 105, 101, 115 >>

\* "Cafe" with an accented e, a space and U+2615 (hot beverage)
TextUnicode == << 67, 97, 102, 233, 32, 9749 >>

\* the first bytes of two JPEG files: the JFIF header, then differing data
JpegOne == << 255, 216, 255, 224, 0, 16, 74, 70, 73, 70, 0, 1, 1, 0, 0, 72 >>
JpegTwo == << 255, 216, 255, 224, 0, 16, 74, 70, 73, 70, 0, 1, 2, 1, 0, 96 >>

\* a file of no bytes
JpegNone == << >>

\* reader.readAsDataURL(file), result.split(',')[1]
ImageBase64(id) ==
  CASE id = "jpeg0" -> Btoa(JpegNone)
    [] id = "jpeg1" -> Btoa(JpegOne)
    [] OTHER -> Btoa(JpegTwo)

\* the string argument is given and is not the empty string: `!!screenshot`
Truthy(shot) == shot # NULL /\ Len(ImageBase64(shot)) > 0

HexRed == << "#", "F", "F", "0", "0", "0", "0" >>
HexGreen == << "#", "0", "0", "F", "F", "0", "0" >>
HexBlue == << "#", "0", "0", "0", "0", "F", "F" >>

LongVoice == Repeat(20, "a")

\* a BrandData the panel holds from an earlier extraction
BrandAcme ==
  [primaryColors |-> << HexRed, HexGreen, HexBlue >>,
   brandVoice |-> LongVoice,
   designGuidelines |-> << "g1", "g2", "g3", "g4" >>]

MkReq(op, content, shot, image, withBrand) ==
  [op |-> op, language |-> "en", content |-> content, screenshot |-> shot,
   image |-> image, hasBrand |-> withBrand]

\* the requests of the model, by name
Request(id) ==
  CASE id = "textCars" -> MkReq("extract", TextCarMakers, NULL, NULL, FALSE)
    [] id = "textBakery" -> MkReq("extract", TextBakeries, NULL, NULL, FALSE)
    [] id = "textUnicode" -> MkReq("extract", TextUnicode, NULL, NULL, FALSE)
    [] id = "shotOne" -> MkReq("extract", << >>, "jpeg1", NULL, FALSE)
    [] id = "shotTwo" -> MkReq("extract", << >>, "jpeg2", NULL, FALSE)
    [] id = "shotEmpty" -> MkReq("extract", << >>, "jpeg0", NULL, FALSE)
    [] id = "auditOne" -> MkReq("analyze", << >>, NULL, "jpeg1", TRUE)
    [] id = "auditTwo" -> MkReq("analyze", << >>, NULL, "jpeg2", TRUE)
    [] id = "prompt" -> MkReq("firefly", << >>, NULL, NULL, TRUE)
    [] id = "trends" -> MkReq("trends", << >>, NULL, NULL, FALSE)
    [] OTHER -> MkReq("none", << >>, NULL, NULL, FALSE)

RequestIds ==
  {"textCars", "textBakery", "textUnicode", "shotOne", "shotTwo", "shotEmpty",
   "auditOne", "auditTwo", "prompt", "trends"}

\* the two requests differ in what the caller asked about
DifferentRequests(a, b) ==
  \/ Request(a).op # Request(b).op
  \/ Request(a).content # Request(b).content
  \/ Request(a).screenshot # Request(b).screenshot
  \/ Request(a).image # Request(b).image

MkKey(op, language, flag, hash, brandHash) ==
  [op |-> op, language |-> language, flag |-> flag, hash |-> hash,
   brandHash |-> brandHash]

\* `brand_${language}_${screenshot ? 'with_image' : 'text_only'}_${btoa(websiteContent).slice(0, 50)}`
BrandCacheKey(req) ==
  MkKey("brand", req.language,
        IF Truthy(req.screenshot) THEN "with_image" ELSE "text_only",
        Slice(Btoa(req.content), BrandKeyPrefix), << >>)

\* `design_${language}_${btoa(imageBase64).slice(0, 20)}_${primaryColors.join('_')}`
DesignCacheKey(req) ==
  MkKey("design", req.language, "",
        Slice(Btoa(ImageBase64(req.image)), ImageKeyPrefix),
        BrandAcme.primaryColors)

NoKey == MkKey("none", "", "", << >>, << >>)

(***************************************************************************)
(* What the LLM can answer.  A completion is named; its body says whether  *)
(* JSON.parse accepts the text and what each field of the parsed object    *)
(* holds.  A field's kind is "missing", the expected kind, or "other".     *)
(***************************************************************************)
Str(chars) == [isString |-> TRUE, chars |-> chars]
NotAString == [isString |-> FALSE, chars |-> << >>]

MkBrandBody(json, ck, colors, vk, voice, gk, guides) ==
  [json |-> json, colorsKind |-> ck, colors |-> colors,
   voiceKind |-> vk, voice |-> voice, guidesKind |-> gk, guides |-> guides]

FourGuides == << "g1", "g2", "g3", "g4" >>
ThreeColors == << Str(HexRed), Str(HexGreen), Str(HexBlue) >>
\* colours as a model may write them: no '#', lower case, a colour name
LooseColors ==
  << Str(<< "f", "f", "0", "0", "0", "0" >>), Str(<< "#", "0", "0", "f", "f", "0", "0" >>),
     Str(<< "r", "e", "d" >>), Str(HexBlue), Str(HexRed), Str(HexGreen) >>

BrandBody(id) ==
  CASE id = "good" ->
         MkBrandBody(TRUE, "array", ThreeColors, "string", LongVoice, "array", FourGuides)
    [] id = "loose" ->
         MkBrandBody(TRUE, "array", LooseColors, "string",
                     << " " >> \o LongVoice \o << " " >>, "array",
                     FourGuides \o << "g5" >>)
    [] id = "malformed" ->
         MkBrandBody(FALSE, "missing", << >>, "missing", << >>, "missing", << >>)
    [] id = "emptyObject" ->
         MkBrandBody(TRUE, "missing", << >>, "missing", << >>, "missing", << >>)
    [] id = "noColors" ->
         MkBrandBody(TRUE, "missing", << >>, "string", LongVoice, "array", FourGuides)
    [] id = "noVoice" ->
         MkBrandBody(TRUE, "array", ThreeColors, "missing", << >>, "array", FourGuides)
    [] id = "noGuides" ->
         MkBrandBody(TRUE, "array", ThreeColors, "string", LongVoice, "missing", << >>)
    [] id = "twoColors" ->
         MkBrandBody(TRUE, "array", SubSeq(ThreeColors, 1, 2), "string", LongVoice,
                     "array", FourGuides)
    [] id = "shortVoice" ->
         MkBrandBody(TRUE, "array", ThreeColors, "string",
                     << " ", " " >> \o Repeat(19, "a"), "array", FourGuides)
    [] id = "threeGuides" ->
         MkBrandBody(TRUE, "array", ThreeColors, "string", LongVoice, "array",
                     SubSeq(FourGuides, 1, 3))
    [] id = "numberColor" ->
         MkBrandBody(TRUE, "array", << Str(HexRed), NotAString, Str(HexBlue) >>,
                     "string", LongVoice, "array", FourGuides)

BrandResponses ==
  {"good", "loose", "malformed", "emptyObject", "noColors", "noVoice", "noGuides",
   "twoColors", "shortVoice", "threeGuides", "numberColor"}

\* c.toUpperCase(), on the letters the completions use
UpperChar(ch) ==
  CASE ch = "a" -> "A" [] ch = "b" -> "B" [] ch = "c" -> "C" [] ch = "d" -> "D"
    [] ch = "e" -> "E" [] ch = "f" -> "F" [] ch = "r" -> "R" [] OTHER -> ch

ToUpperCase(s) == [i \in 1..Len(s) |-> UpperChar(s[i])]

\* c.startsWith('#') ? c : `#${c}`, then toUpperCase()
NormalizeColor(c) ==
  ToUpperCase(IF Len(c) > 0 /\ c[1] = "#" THEN c ELSE << "#" >> \o c)

NoBrandData ==
  [type |-> "none", primaryColors |-> << >>, brandVoice |-> << >>,
   designGuidelines |-> << >>, websiteScreenshot |-> NULL]

Verdict(ok, err, data) == [ok |-> ok, error |-> err, data |-> data]

\* a validation that does not trim the design guidelines to four
ValidateBrandNoTrim(body, screenshot) ==
  LET kept == Slice(body.colors, 5) IN
  IF body.colorsKind # "array" \/ Len(body.colors) < 3
    THEN Verdict(FALSE, "missing or insufficient primary colors", NoBrandData)
  ELSE IF \E i \in 1..Len(kept) : ~kept[i].isString \/ Trim(kept[i].chars) = << >>
    THEN Verdict(FALSE, "Invalid color format", NoBrandData)
  ELSE IF body.voiceKind # "string" \/ Len(body.voice) = 0 \/ Len(Trim(body.voice)) < 20
    THEN Verdict(FALSE, "insufficient brand voice description", NoBrandData)
  ELSE IF body.guidesKind # "array" \/ Len(body.guides) < 4
    THEN Verdict(FALSE, "insufficient design guidelines", NoBrandData)
  ELSE Verdict(TRUE, NULL,
         [type |-> "brand",
          primaryColors |-> [i \in 1..Len(kept) |-> NormalizeColor(kept[i].chars)],
          brandVoice |-> body.voice,
          designGuidelines |-> body.guides,
          websiteScreenshot |-> IF Truthy(screenshot) THEN screenshot ELSE NULL])

\* a validation that fills in a missing brand voice instead of failing
ValidateBrandDefaulting(body, screenshot) ==
  LET kept == Slice(body.colors, 5) IN
  IF body.colorsKind # "array" \/ Len(body.colors) < 3
    THEN Verdict(FALSE, "missing or insufficient primary colors", NoBrandData)
  ELSE IF \E i \in 1..Len(kept) : ~kept[i].isString \/ Trim(kept[i].chars) = << >>
    THEN Verdict(FALSE, "Invalid color format", NoBrandData)
  ELSE IF body.guidesKind # "array" \/ Len(body.guides) < 4
    THEN Verdict(FALSE, "insufficient design guidelines", NoBrandData)
  ELSE Verdict(TRUE, NULL,
         [type |-> "brand",
          primaryColors |-> [i \in 1..Len(kept) |-> NormalizeColor(kept[i].chars)],
          brandVoice |-> IF body.voiceKind # "string" \/ Len(Trim(body.voice)) < 20
                           THEN LongVoice ELSE body.voice,
          designGuidelines |-> Slice(body.guides, 4),
          websiteScreenshot |-> IF Truthy(screenshot) THEN screenshot ELSE NULL])

\* the "Validate required fields" block of extractBrandIdentity, through
\* "Trim to expected sizes" and the websiteScreenshot assignment
ValidateBrand(body, screenshot) ==
  LET kept == Slice(body.colors, 5) IN
  IF body.colorsKind # "array" \/ Len(body.colors) < 3
    THEN Verdict(FALSE, "missing or insufficient primary colors", NoBrandData)
  ELSE IF \E i \in 1..Len(kept) : ~kept[i].isString \/ Trim(kept[i].chars) = << >>
    THEN Verdict(FALSE, "Invalid color format", NoBrandData)
  ELSE IF body.voiceKind # "string" \/ Len(body.voice) = 0 \/ Len(Trim(body.voice)) < 20
    THEN Verdict(FALSE, "insufficient brand voice description", NoBrandData)
  ELSE IF body.guidesKind # "array" \/ Len(body.guides) < 4
    THEN Verdict(FALSE, "insufficient design guidelines", NoBrandData)
  ELSE Verdict(TRUE, NULL,
         [type |-> "brand",
          primaryColors |-> [i \in 1..Len(kept) |-> NormalizeColor(kept[i].chars)],
          brandVoice |-> body.voice,
          designGuidelines |-> Slice(body.guides, 4),
          websiteScreenshot |-> IF Truthy(screenshot) THEN screenshot ELSE NULL])

(***************************************************************************)
(* analyzeDesign: a score is a JSON value; a number is held in tenths so   *)
(* that Math.round has something to round.                                 *)
(***************************************************************************)
Num(tenths) == [kind |-> "number", tenths |-> tenths]
Missing == [kind |-> "missing", tenths |-> 0]
JsonNull == [kind |-> "null", tenths |-> 0]
\* a string or object that Number() turns into NaN
NotANumber == [kind |-> "nan", tenths |-> 0]
\* a value that is no number but that Number() turns into one: "" and false
\* into 0, true into 1, "85" into 85
Coerced(tenths) == [kind |-> "coerced", tenths |-> tenths]

\* Math.round(x): the nearest integer, halves upward
MathRound(tenths) == (tenths + 5) \div 10

\* a clampScore that forgets the lower end of the range
ClampScoreNoFloor(score) ==
  IF score.kind \in {"missing", "null", "nan"} THEN 50
  ELSE Min(100, MathRound(score.tenths))

\* clampScore(score, 50)
ClampScore(score) ==
  IF score.kind \in {"missing", "null", "nan"} THEN 50
  ELSE Max(0, Min(100, MathRound(score.tenths)))

MkAuditBody(json, s, c, t, sp, a, fk, feedback, rk, recs) ==
  [json |-> json, score |-> s, colorConsistency |-> c, typographyScale |-> t,
   spacingRhythm |-> sp, accessibility |-> a,
   feedbackKind |-> fk, feedback |-> feedback,
   recommendationsKind |-> rk, recommendations |-> recs]

AuditBody(id) ==
  CASE id = "audit" ->
         MkAuditBody(TRUE, Num(820), Num(905), Num(644), Num(700), Num(555),
                     "array", << "f1", "f2", "f3" >>, "array", << "r1", "r2", "r3" >>)
    [] id = "wild" ->
         MkAuditBody(TRUE, Num(1500), Num(-30), NotANumber, JsonNull, Missing,
                     "array", << "f1", "f2", "f3", "f4", "f5", "f6" >>, "array", << >>)
    [] id = "malformed" ->
         MkAuditBody(FALSE, Missing, Missing, Missing, Missing, Missing,
                     "missing", << >>, "missing", << >>)
    [] id = "emptyObject" ->
         MkAuditBody(TRUE, Missing, Missing, Missing, Missing, Missing,
                     "missing", << >>, "missing", << >>)

AuditResponses == {"audit", "wild", "malformed", "emptyObject"}

DefaultFeedback == << "Design analysis completed. Review metrics for details." >>
DefaultRecommendations == << "Continue refining design based on brand guidelines." >>

\* the "Ensure valid response structure" block of analyzeDesign
BuildAnalysis(body) ==
  [type |-> "analysis",
   score |-> ClampScore(body.score),
   colorConsistency |-> ClampScore(body.colorConsistency),
   typographyScale |-> ClampScore(body.typographyScale),
   spacingRhythm |-> ClampScore(body.spacingRhythm),
   accessibility |-> ClampScore(body.accessibility),
   feedback |-> IF body.feedbackKind = "array" /\ Len(body.feedback) > 0
                  THEN Slice(body.feedback, 5) ELSE DefaultFeedback,
   recommendations |-> IF body.recommendationsKind = "array" /\ Len(body.recommendations) > 0
                         THEN Slice(body.recommendations, 5) ELSE DefaultRecommendations]

(***************************************************************************)
(* generateFireflyPrompt answers with text, getViralTrends with a JSON     *)
(* array of {id, name, desc}.                                              *)
(***************************************************************************)
\* completion.choices[0]?.message?.content of a prompt completion
PromptText(id) ==
  CASE id = "prompt" -> Repeat(12, "p")
    [] id = "tooShort" -> << " " >> \o Repeat(9, "p") \o << " " >>
    [] id = "noContent" -> << >>

PromptResponses == {"prompt", "tooShort", "noContent"}

\* the parsed trends: whether JSON.parse accepts the text, whether the value
\* is an array, and how many entries it has
TrendsBody(id) ==
  CASE id = "trends" -> [json |-> TRUE, isArray |-> TRUE, count |-> 1]
    [] id = "emptyArray" -> [json |-> TRUE, isArray |-> TRUE, count |-> 0]
    [] id = "object" -> [json |-> TRUE, isArray |-> FALSE, count |-> 0]
    [] id = "malformed" -> [json |-> FALSE, isArray |-> FALSE, count |-> 0]

TrendsResponses == {"trends", "emptyArray", "object", "malformed"}

ResponsesFor(op) ==
  CASE op = "extract" -> BrandResponses
    [] op = "analyze" -> AuditResponses
    [] op = "firefly" -> PromptResponses
    [] op = "trends" -> TrendsResponses

(***************************************************************************)
(* The facade's calls.  A call is at one of these places:                  *)
(*   idle      not invoked yet                                             *)
(*   modLocal  awaiting the local classifier of the moderation check       *)
(*   modGroq   awaiting the Groq-prompted fallback of the check            *)
(*   llm       awaiting the main completion (inside retryWithBackoff)      *)
(*   sleep     awaiting the backoff timer                                  *)
(*   done      returned or threw                                           *)
(* `stage` indexes the awaits of the operation, in the order of its code.  *)
(***************************************************************************)
Stages(op) ==
  CASE op = "extract" -> << "inText", "inImage", "main", "outVoice", "outGuides", "finish" >>
    [] op = "analyze" ->
         << "inVoice", "inGuides", "inImage", "main", "outFeedback", "outRecs", "finish" >>
    [] op = "firefly" -> << "inTrend", "inVoice", "main", "outResult", "finish" >>
    [] op = "trends" -> << "inVoice", "inGuides", "main", "outName", "outDesc", "finish" >>

\* the index of "main" in Stages(op)
MainStage(op) == IF op = "analyze" THEN 4 ELSE 3

MkError(kind, wrapped, message) == [kind |-> kind, wrapped |-> wrapped, message |-> message]
NoError == MkError("none", FALSE, NULL)

MsgNotConfigured == "Groq API key not configured. Set your Groq API key in Settings."
MsgInputRejected == "Input content contains inappropriate material. Please provide clean content."
MsgImageRejected == "Input image contains inappropriate material. Please provide clean content."
MsgOutputRejected == "Generated content contains inappropriate material. Please try again."

NoClient == [isNull |-> TRUE, apiKey |-> << >>]
NoApiKey == [isNull |-> TRUE, chars |-> << >>]

IdleCall ==
  [pc |-> "idle", req |-> "none", key |-> NoKey, stage |-> 0, item |-> 0,
   client |-> NoClient, rb |-> RetryIdle, mainCalls |-> 0, fallbacks |-> 0,
   model |-> NULL, response |-> NULL, data |-> NoBrandData,
   status |-> "none", error |-> NoError, hit |-> FALSE, from |-> "none",
   wrote |-> FALSE, evicted |-> FALSE, failedOpen |-> FALSE,
   unconfigured |-> FALSE, aborted |-> FALSE]

\* the function returns or throws: its locals are gone
Settle(call) == [call EXCEPT !.pc = "done", !.rb = RetryIdle, !.client = NoClient,
                             !.stage = 0, !.item = 0]

Return(call, data) == Settle([call EXCEPT !.status = "ok", !.data = data])

Throw(call, kind, wrapped, message) ==
  Settle([call EXCEPT !.status = "error", !.error = MkError(kind, wrapped, message),
                      !.data = NoBrandData])

\* every operation names VISION_MODEL whenever an image of any kind is passed
ModelForAnyImage(req) ==
  IF req.screenshot # NULL \/ req.image # NULL THEN "vision" ELSE "text"

\* useVisionModel ? VISION_MODEL : TEXT_MODEL, and the model each other operation names
ModelFor(req) ==
  CASE req.op = "extract" -> IF Truthy(req.screenshot) THEN "vision" ELSE "text"
    [] req.op = "analyze" -> "vision"
    [] OTHER -> "text"

\* whether the operation keeps its result in the cache
Caches(op) == op \in {"extract", "analyze"}

\* the argument of the moderation check at a stage: whether evaluating it
\* throws, and whether it is a non-empty string (else the check answers
\* "safe" at once)
CheckOf(call, name) ==
  LET req == Request(call.req) IN
  CASE req.op = "extract" /\ name = "inText" ->
         [throws |-> FALSE, present |-> Len(req.content) > 0]
    [] req.op = "extract" /\ name = "inImage" ->
         [throws |-> FALSE, present |-> Truthy(req.screenshot)]
    [] req.op = "extract" /\ name = "outVoice" ->
         [throws |-> FALSE,
          present |-> BrandBody(call.response).voiceKind = "string"
                        /\ Len(BrandBody(call.response).voice) > 0]
    [] req.op = "extract" /\ name = "outGuides" ->
         [throws |-> BrandBody(call.response).guidesKind # "array",
          present |-> Len(BrandBody(call.response).guides) > 0]
    [] req.op = "analyze" /\ name = "inImage" ->
         [throws |-> FALSE, present |-> req.image # NULL]
    [] req.op = "trends" /\ name \in {"inVoice", "inGuides"} ->
         [throws |-> FALSE, present |-> req.hasBrand]
    [] req.op = "trends" /\ name \in {"outName", "outDesc"} ->
         [throws |-> ~TrendsBody(call.response).isArray,
          present |-> call.item <= TrendsBody(call.response).count]
    [] OTHER -> [throws |-> FALSE, present |-> TRUE]

\* the result is stored before it is validated
FinishCachesFirst(call) ==
  LET req == Request(call.req) IN
  CASE req.op = "extract" ->
         LET v == ValidateBrand(BrandBody(call.response), req.screenshot) IN
         IF v.ok THEN Return([call EXCEPT !.wrote = TRUE], v.data)
         ELSE Throw([call EXCEPT !.wrote = TRUE], "validation", TRUE, v.error)
    [] req.op = "analyze" -> Return([call EXCEPT !.wrote = TRUE], call.data)
    [] req.op = "firefly" -> Return(call, call.data)
    [] req.op = "trends" ->
         IF TrendsBody(call.response).count = 0
           THEN Throw(call, "validation", TRUE, "Invalid trends response")
           ELSE Return(call, [type |-> "trends", count |-> TrendsBody(call.response).count])

\* every operation stores its result
FinishCachesEverything(call) ==
  LET req == Request(call.req) IN
  CASE req.op = "extract" ->
         LET v == ValidateBrand(BrandBody(call.response), req.screenshot) IN
         IF v.ok THEN Return([call EXCEPT !.wrote = TRUE], v.data)
         ELSE Throw(call, "validation", TRUE, v.error)
    [] req.op = "analyze" -> Return([call EXCEPT !.wrote = TRUE], call.data)
    [] req.op = "firefly" -> Return([call EXCEPT !.wrote = TRUE], call.data)
    [] req.op = "trends" ->
         IF TrendsBody(call.response).count = 0
           THEN Throw(call, "validation", TRUE, "Invalid trends response")
           ELSE Return([call EXCEPT !.wrote = TRUE],
                       [type |-> "trends", count |-> TrendsBody(call.response).count])

\* the code after the last await of the operation
Finish(call) ==
  LET req == Request(call.req) IN
  CASE req.op = "extract" ->
         LET v == ValidateBrand(BrandBody(call.response), req.screenshot) IN
         IF v.ok THEN Return([call EXCEPT !.wrote = TRUE], v.data)
         ELSE Throw(call, "validation", TRUE, v.error)
    [] req.op = "analyze" -> Return([call EXCEPT !.wrote = TRUE], call.data)
    [] req.op = "firefly" -> Return(call, call.data)
    [] req.op = "trends" ->
         IF TrendsBody(call.response).count = 0
           THEN Throw(call, "validation", TRUE, "Invalid trends response")
           ELSE Return(call, [type |-> "trends", count |-> TrendsBody(call.response).count])

\* ensureClient(): throws when this.client is null
EnsureClientNever(cl) == FALSE

EnsureClientThrows(cl) == cl.isNull

\* run the call from stage i up to its next await; cl is this.client now
RECURSIVE Enter(_, _, _)
Enter(call, i, cl) ==
  LET req == Request(call.req)
      name == Stages(req.op)[i]
      chk == CheckOf(call, name)
  IN
  IF name = "main" THEN
    \* ensureClient(), then retryWithBackoff invokes client.chat.completions.create
    IF EnsureClientThrows(cl) THEN Throw(call, "config", TRUE, MsgNotConfigured)
    ELSE [call EXCEPT !.pc = "llm", !.stage = i, !.client = cl,
                      !.rb = RetryBegin(DefaultMaxRetries, DefaultBaseDelay),
                      !.mainCalls = call.mainCalls + 1,
                      !.model = ModelFor(req)]
  ELSE IF name = "finish" THEN Finish(call)
  ELSE IF chk.throws THEN Throw(call, "typeError", TRUE, "TypeError")
  ELSE IF ~chk.present THEN
    \* for (const trend of trends): past the last entry the loop ends
    Enter(call, i + 1, cl)
  ELSE [call EXCEPT !.pc = "modLocal", !.stage = i]

\* an input check whose unsafe verdict does not stop the operation
AfterVerdictLenient(call, unsafe, cl) ==
  LET req == Request(call.req)
      i == call.stage
      name == Stages(req.op)[i]
      isInput == i < MainStage(req.op)
  IN
  IF unsafe /\ ~isInput THEN Throw(call, "outputRejected", TRUE, MsgOutputRejected)
  ELSE IF req.op = "trends" /\ name = "outDesc" THEN
    Enter([call EXCEPT !.item = call.item + 1], i - 1, cl)
  ELSE Enter(call, i + 1, cl)

\* a moderation check answered: unsafe throws, safe goes on
AfterVerdict(call, unsafe, cl) ==
  LET req == Request(call.req)
      i == call.stage
      name == Stages(req.op)[i]
      isInput == i < MainStage(req.op)
  IN
  IF unsafe THEN
    IF isInput THEN
      Throw(call, "inputRejected", FALSE,
            IF name = "inImage" THEN MsgImageRejected ELSE MsgInputRejected)
    ELSE Throw(call, "outputRejected", TRUE, MsgOutputRejected)
  ELSE IF req.op = "trends" /\ name = "outDesc" THEN
    \* the next trend of the loop
    Enter([call EXCEPT !.item = call.item + 1], i - 1, cl)
  ELSE Enter(call, i + 1, cl)

\* the completion arrived: parse it and build what the operation builds
\* before its output moderation
OnCompletion(call, resp, cl) ==
  LET req == Request(call.req)
      c1 == [call EXCEPT !.response = resp, !.item = 1]
  IN
  CASE req.op = "extract" ->
         IF ~BrandBody(resp).json THEN Throw(c1, "parse", TRUE, "SyntaxError")
         ELSE Enter(c1, call.stage + 1, cl)
    [] req.op = "analyze" ->
         IF ~AuditBody(resp).json THEN Throw(c1, "parse", TRUE, "SyntaxError")
         ELSE Enter([c1 EXCEPT !.data = BuildAnalysis(AuditBody(resp))], call.stage + 1, cl)
    [] req.op = "firefly" ->
         IF Len(PromptText(resp)) = 0 \/ Len(Trim(PromptText(resp))) < 10
           THEN Throw(c1, "validation", TRUE, "Invalid response from Firefly prompt generator")
           ELSE Enter([c1 EXCEPT !.data = [type |-> "prompt", text |-> PromptText(resp)]],
                      call.stage + 1, cl)
    [] req.op = "trends" ->
         IF ~TrendsBody(resp).json THEN Throw(c1, "parse", TRUE, "SyntaxError")
         ELSE Enter(c1, call.stage + 1, cl)

(***************************************************************************)
(* The response cache: a map from keys to {data, timestamp, ttl}.  `by`    *)
(* remembers the request whose result the entry holds.                     *)
(***************************************************************************)
\* an expiry test that still serves the entry at the instant the TTL ends
CacheFreshInclusive(entry, t) == t - entry.timestamp <= entry.ttl

\* Date.now() - cached.timestamp < cached.ttl
CacheFresh(entry, t) == t - entry.timestamp < entry.ttl

\* a getCachedData that sweeps every expired entry out of the map
GetCachedDataSweep(map, key, t) ==
  LET fresh == { k \in DOMAIN map : CacheFresh(map[k], t) } IN
  [found |-> key \in fresh, map |-> [k \in fresh |-> map[k]]]

\* getCachedData(key): the data or a miss, and the map it leaves
GetCachedData(map, key, t) ==
  IF key \in DOMAIN map /\ CacheFresh(map[key], t)
    THEN [found |-> TRUE, map |-> map]
  ELSE IF key \in DOMAIN map
    THEN [found |-> FALSE, map |-> [k \in DOMAIN map \ {key} |-> map[k]]]
  ELSE [found |-> FALSE, map |-> map]

\* an entry already stored under the key is kept
SetCachedDataKeepFirst(map, key, data, t, ttl, by) ==
  IF key \in DOMAIN map THEN map
  ELSE (key :> [data |-> data, timestamp |-> t, ttl |-> ttl, by |-> by]) @@ map

\* setCachedData(key, data, ttl)
SetCachedData(map, key, data, t, ttl, by) ==
  (key :> [data |-> data, timestamp |-> t, ttl |-> ttl, by |-> by]) @@ map

EmptyCache == [k \in {} |-> 0]

(***************************************************************************)
(* The Groq-prompted fallback of a moderation check is one retryWithBackoff*)
(* run whose completions answer YES or NO; the run touches nothing shared, *)
(* so the check's await is one step and the run is summed up by how it     *)
(* ended and how many completions it requested.                            *)
(***************************************************************************)
FallbackErrors == {E429, E401}

RECURSIVE RetryRuns(_)
RetryRuns(r) ==
  IF r.phase \in {"resolved", "rejected"} THEN {r}
  ELSE IF r.phase = "waiting" THEN RetryRuns(RetryWake(r))
  ELSE UNION ( { RetryRuns(RetryResolve(r, MkValue(r.calls, answer))) :
                   answer \in {"YES", "NO"} }
               \cup { RetryRuns(RetryReject(r, err, TRUE, 0)) : err \in FallbackErrors } )

\* a fallback that blocks the content when it cannot obtain a verdict
FallbackSaysFailClosed(r) == r.phase # "resolved" \/ r.value.payload = "YES"

\* response === 'YES' after the run, or false from the catch block
FallbackSays(r) == r.phase = "resolved" /\ r.value.payload = "YES"

FallbackRuns == RetryRuns(RetryBegin(DefaultMaxRetries, DefaultBaseDelay))

\* how the local classifier path of a check can end: with a verdict, or
\* with the model failing to load, not loading within 10 s, or classify()
\* (for an image also the image load) failing.  Whether the model is
\* already loaded only narrows the failures that can occur; the model
\* allows each of them at every check.
LocalOutcomes == {"safe", "unsafe", "loadError", "loadTimeout", "classifyError"}

VARIABLES
  rb,            \* the retryWithBackoff run under test (executor specification)
  oplog,         \* what the wrapped operation did, one entry per invocation
  client,        \* this.client: the SDK client, named by the key it was built with
  apiKey,        \* this.apiKey
  cache,         \* this.cache
  now,           \* Date.now(), in ms since the session began
  ticks,         \* clock advances so far
  faults,        \* environment disturbances so far
  panel,         \* the panel of the add-on the session works in
  calls,         \* the facade invocations, by slot; a settled slot is reused
  sample,        \* a parsed completion handed to the code after JSON.parse
  built,         \* what that code made of it
  lookup,        \* what the last direct getCachedData call returned
  brain,         \* the React state of the BrandBrain component and its handler runs
  doc,           \* the document sandbox: the insertion parent and the image calls
  mod,           \* the moderation checks when called on their own
  twins,         \* two extractBrandIdentity calls that may overlap
  settings       \* the Settings component and the host's client storage

retryVars == <<rb, oplog>>
facadeVars == <<client, apiKey, cache, now, ticks, faults, panel, calls>>
parseVars == <<sample, built>>
\* the variables of the components beside the facade and the executor
uiVars == <<brain, doc>>
extraVars == <<twins, settings>>
asideVars == <<parseVars, lookup, uiVars, mod, extraVars>>
vars == <<rb, oplog, client, apiKey, cache, now, ticks, faults, panel, calls, sample, built,
          lookup, brain, doc, mod, twins, settings>>

NoSample == [op |-> "none"]
NoBuilt == [op |-> "none"]
NoLookup == [key |-> NoKey, found |-> FALSE, data |-> NoBrandData]
\* the component is not mounted; the sandbox API is not in use
NoBrain == [mounted |-> FALSE]
NoDoc == [exposed |-> FALSE]
\* the checks are not called on their own
NoMod == [active |-> FALSE]
\* no overlapping calls are made; the Settings tab is not open
NoTwins == [active |-> FALSE]
NoSettings == [mounted |-> FALSE]
ExtraIdle == twins = NoTwins /\ settings = NoSettings

\* nothing beside the facade and the executor is in use
AsideIdle ==
  /\ sample = NoSample
  /\ built = NoBuilt
  /\ lookup = NoLookup
  /\ brain = NoBrain
  /\ doc = NoDoc
  /\ mod = NoMod
  /\ ExtraIdle

\* the invocations of a session run one after another, in one slot
CallIds == {1}

\* the requests each panel issues
PanelRequests(p) ==
  CASE p = "brandText" -> {"textCars", "textBakery", "textUnicode"}
    [] p = "brandImage" -> {"shotOne", "shotTwo"}
    [] p = "brandBlank" -> {"shotEmpty"}
    [] p = "audit" -> {"auditOne", "auditTwo"}
    [] p = "generate" -> {"prompt", "trends"}
    [] p = "mixed" -> {"auditOne", "prompt"}
    [] OTHER -> {}

Panels == {"brandText", "brandImage", "brandBlank", "audit", "generate", "mixed"}

\* the state after `new GroqClient()`: no build-time key, empty cache
FacadeFresh ==
  /\ client = NoClient
  /\ apiKey = NoApiKey
  /\ cache = EmptyCache
  /\ now = 0
  /\ ticks = 0
  /\ faults = 0
  /\ calls = [c \in CallIds |-> IdleCall]

(***************************************************************************)
(* Actions of the facade                                                   *)
(***************************************************************************)
\* the key is stored as it was typed
SetApiKeyResultUntrimmed(input) ==
  IF ~input.isString \/ Len(input.chars) = 0 \/ Trim(input.chars) = << >>
    THEN [client |-> NoClient, apiKey |-> NoApiKey]
    ELSE [client |-> [isNull |-> FALSE, apiKey |-> input.chars],
          apiKey |-> [isNull |-> FALSE, chars |-> input.chars]]

\* what setApiKey(apiKey) stores; the argument is a string or something else
SetApiKeyResult(input) ==
  IF ~input.isString \/ Len(input.chars) = 0 \/ Trim(input.chars) = << >>
    THEN [client |-> NoClient, apiKey |-> NoApiKey]
    ELSE [client |-> [isNull |-> FALSE, apiKey |-> Trim(input.chars)],
          apiKey |-> [isNull |-> FALSE, chars |-> Trim(input.chars)]]

\* a change of credential empties the cache
CacheDroppedBySetApiKey(map) == EmptyCache

\* setApiKey assigns this.client and this.apiKey and nothing else
CacheAfterSetApiKey(map) == map

KeyInputs ==
  { Str(<< >>), Str(<< " ", " " >>), Str(<< "k" >>), Str(<< " ", "k", " " >>), NotAString }

InFlight(c) == calls[c].pc \notin {"idle", "done"}

\* setApiKey(apiKey).  A call in flight notes that a credential appeared
\* during it (`unconfigured` is a record for the claims, not program state).
SetApiKey(input) ==
  LET r == SetApiKeyResult(input) IN
  /\ client' = r.client
  /\ apiKey' = r.apiKey
  /\ calls' = [c \in CallIds |->
                 IF InFlight(c) /\ ~r.client.isNull
                   THEN [calls[c] EXCEPT !.unconfigured = FALSE] ELSE calls[c]]
  /\ cache' = CacheAfterSetApiKey(cache)
  /\ UNCHANGED <<now, ticks, faults, panel, retryVars, asideVars>>

\* time passes: to the last instant at which an entry written now is still
\* fresh, or to the instant its TTL ends
TickSteps == {DefaultTTL - 1, DefaultTTL}

Tick(d) ==
  /\ ticks < MaxTicks
  /\ now' = now + d
  /\ ticks' = ticks + 1
  /\ UNCHANGED <<client, apiKey, cache, faults, panel, calls, retryVars, asideVars>>

\* the environment deviates from the nominal run
Fault(isFault) ==
  /\ isFault => faults < MaxFaults
  /\ faults' = IF isFault THEN faults + 1 ELSE faults

\* the call has run up to its next await, or to its end: the cache write of
\* a successful extractBrandIdentity / analyzeDesign is its last statement
Commit(c, after, map) ==
  /\ calls' = [calls EXCEPT ![c] = after]
  /\ cache' = IF after.pc = "done" /\ after.wrote
                THEN SetCachedData(map, after.key, after.data, now, DefaultTTL, after.req)
                ELSE map

\* an operation is invoked: the cache key and the cache lookup come before
\* its first await
Start(c, r) ==
  LET req == Request(r)
      base == [IdleCall EXCEPT !.req = r, !.unconfigured = client.isNull]
      key == IF req.op = "extract" THEN BrandCacheKey(req) ELSE DesignCacheKey(req)
      got == GetCachedData(cache, key, now)
  IN
  /\ calls[c].pc \in {"idle", "done"}
  /\ \A d \in CallIds : d < c => InFlight(d)
  /\ r \in PanelRequests(panel)
  /\ IF req.op = "extract" /\ BtoaThrows(req.content) THEN
       Commit(c, Throw(base, "invalidCharacter", FALSE, "InvalidCharacterError"), cache)
     ELSE IF ~Caches(req.op) THEN
       Commit(c, Enter(base, 1, client), cache)
     ELSE IF got.found THEN
       Commit(c, Return([base EXCEPT !.key = key, !.hit = TRUE, !.from = cache[key].by],
                        cache[key].data), got.map)
     ELSE
       Commit(c, Enter([base EXCEPT !.key = key, !.evicted = key \in DOMAIN cache], 1, client),
              got.map)
  /\ UNCHANGED <<client, apiKey, now, ticks, faults, panel, retryVars, asideVars>>

\* the local classifier path of containsToxicContent / containsNSFWContent
\* ends: with a verdict, or with a failure that turns to the Groq fallback,
\* whose ensureClient() throws into "safe" when no client is configured and
\* which otherwise requests its first completion
LocalSettles(c, outcome) ==
  LET call == calls[c] IN
  /\ call.pc = "modLocal"
  /\ Fault(outcome # "safe")
  /\ IF outcome \in {"safe", "unsafe"} THEN
       Commit(c, AfterVerdict(call, outcome = "unsafe", client), cache)
     ELSE IF EnsureClientThrows(client) THEN
       Commit(c, AfterVerdict([call EXCEPT !.failedOpen = TRUE], FALSE, client), cache)
     ELSE
       Commit(c, [call EXCEPT !.pc = "modGroq", !.fallbacks = call.fallbacks + 1], cache)
  /\ UNCHANGED <<client, apiKey, now, ticks, panel, retryVars, asideVars>>

\* the fallback's retryWithBackoff run ends: YES is unsafe, anything else
\* and any failure is safe
GroqModSettles(c, run) ==
  LET call == calls[c] IN
  /\ call.pc = "modGroq"
  /\ Commit(c, AfterVerdict([call EXCEPT !.failedOpen = @ \/ run.phase = "rejected"],
                             FallbackSays(run), client), cache)
  /\ UNCHANGED <<client, apiKey, now, ticks, faults, panel, retryVars, asideVars>>

\* the completion the model was asked for
Nominal(op) ==
  CASE op = "extract" -> "good" [] op = "analyze" -> "audit"
    [] op = "firefly" -> "prompt" [] op = "trends" -> "trends"

\* the main completion arrives: retryWithBackoff returns it and is over
MainResolves(c, resp) ==
  LET call == calls[c] IN
  /\ call.pc = "llm"
  /\ resp \in ResponsesFor(Request(call.req).op)
  /\ Fault(resp # Nominal(Request(call.req).op))
  /\ RetryResolve(call.rb, MkValue(call.rb.calls, resp)).phase = "resolved"
  /\ Commit(c, OnCompletion([call EXCEPT !.rb = RetryIdle], resp, client), cache)
  /\ UNCHANGED <<client, apiKey, now, ticks, panel, retryVars, asideVars>>

\* the main completion fails: retryWithBackoff throws or sleeps
MainRejects(c, err, online, jitter) ==
  LET call == calls[c]
      r == RetryReject(call.rb, err, online, jitter)
  IN
  /\ call.pc = "llm"
  /\ Fault(TRUE)
  /\ IF r.phase = "rejected"
       THEN Commit(c, Throw(call, "transport", TRUE, r.error), cache)
       ELSE Commit(c, [call EXCEPT !.pc = "sleep", !.rb = r], cache)
  /\ UNCHANGED <<client, apiKey, now, ticks, panel, retryVars, asideVars>>

\* the backoff timer fires and the completion is requested again
MainTimer(c) ==
  LET call == calls[c] IN
  /\ call.pc = "sleep"
  /\ Commit(c, [call EXCEPT !.pc = "llm", !.rb = RetryWake(call.rb),
                            !.mainCalls = call.mainCalls + 1], cache)
  /\ UNCHANGED <<client, apiKey, now, ticks, faults, panel, retryVars, asideVars>>

\* the caller aborts the AbortSignal it passed as `signal` before the main
\* completion has resolved; the operation never reads the parameter
Abort(c) ==
  LET call == calls[c] IN
  /\ InFlight(c)
  /\ Request(call.req).op = "extract"
  /\ call.stage <= MainStage("extract")
  /\ ~call.aborted
  /\ Fault(TRUE)
  /\ calls' = [calls EXCEPT ![c] = [call EXCEPT !.aborted = TRUE]]
  /\ UNCHANGED <<client, apiKey, cache, now, ticks, panel, retryVars, asideVars>>

Init ==
  /\ FacadeFresh
  /\ panel \in Panels
  /\ rb = RetryIdle
  /\ oplog = << >>
  /\ AsideIdle

Next ==
  \/ \E input \in KeyInputs : SetApiKey(input)
  \/ \E d \in TickSteps : Tick(d)
  \/ \E c \in CallIds, r \in RequestIds : Start(c, r)
  \/ \E c \in CallIds, outcome \in LocalOutcomes : LocalSettles(c, outcome)
  \/ \E c \in CallIds : calls[c].pc = "modGroq" /\ \E run \in FallbackRuns : GroqModSettles(c, run)
  \/ \E c \in CallIds, resp \in BrandResponses \cup AuditResponses
                               \cup PromptResponses \cup TrendsResponses : MainResolves(c, resp)
  \/ \E c \in CallIds, err \in MockErrors, online \in BOOLEAN, jitter \in Jitters :
       MainRejects(c, err, online, jitter)
  \/ \E c \in CallIds : MainTimer(c)
  \/ \E c \in CallIds : Abort(c)

Spec == Init /\ [][Next]_vars

(***************************************************************************)
(* The executor on its own: the wrapped operation is a mock transport      *)
(* whose k-th invocation resolves with a value tagged k, or rejects.       *)
(***************************************************************************)
RetryLimits == {0, 1, DefaultMaxRetries}

RetryInit ==
  /\ \E m \in RetryLimits : rb = RetryBegin(m, DefaultBaseDelay)
  /\ oplog = << >>
  /\ panel = "none"
  /\ FacadeFresh
  /\ AsideIdle

OperationResolves ==
  /\ rb.phase = "calling"
  /\ rb' = RetryResolve(rb, MkValue(rb.calls, "completion"))
  /\ oplog' = Append(oplog, [ok |-> TRUE, err |-> ENoMessage, online |-> TRUE])
  /\ UNCHANGED <<facadeVars, asideVars>>

OperationRejects ==
  /\ rb.phase = "calling"
  /\ \E err \in MockErrors, online \in BOOLEAN, jitter \in Jitters :
       /\ rb' = RetryReject(rb, err, online, jitter)
       /\ oplog' = Append(oplog, [ok |-> FALSE, err |-> err, online |-> online])
  /\ UNCHANGED <<facadeVars, asideVars>>

TimerFires ==
  /\ rb.phase = "waiting"
  /\ rb' = RetryWake(rb)
  /\ UNCHANGED oplog
  /\ UNCHANGED <<facadeVars, asideVars>>

RetryNext == OperationResolves \/ OperationRejects \/ TimerFires

SpecRetry == RetryInit /\ [][RetryNext]_vars

\* every attempt settles and every timer fires
SpecRetryFair == RetryInit /\ [][RetryNext]_vars /\ WF_vars(RetryNext)

(***************************************************************************)
(* The executor facing every shape of error: any status with any code and  *)
(* any message, online or offline                                          *)
(***************************************************************************)
ErrorStatuses == {0, 400, 401, 403, 404, 429, 499, 500, 503}
ErrorCodes == {NULL, "ECONNABORTED"}
ErrorMessages == {NULL, "timeout", "network"}

ErrorShapes ==
  { MkErr(st, c, m) : st \in ErrorStatuses, c \in ErrorCodes, m \in ErrorMessages }

ShortLimits == {0, 1}

ErrorsInit ==
  /\ \E m \in ShortLimits : rb = RetryBegin(m, DefaultBaseDelay)
  /\ oplog = << >>
  /\ panel = "none"
  /\ FacadeFresh
  /\ AsideIdle

ErrorRaised ==
  /\ rb.phase = "calling"
  /\ \E err \in ErrorShapes, online \in BOOLEAN, jitter \in Jitters :
       /\ rb' = RetryReject(rb, err, online, jitter)
       /\ oplog' = Append(oplog, [ok |-> FALSE, err |-> err, online |-> online])
  /\ UNCHANGED <<facadeVars, asideVars>>

ErrorsNext == OperationResolves \/ ErrorRaised \/ TimerFires

SpecErrors == ErrorsInit /\ [][ErrorsNext]_vars

(***************************************************************************)
(* Claims about the executor                                               *)
(***************************************************************************)
Failed429(e) == ~e.ok /\ e.err.status = 429

ThreeTimes429 ==
  /\ Len(oplog) >= 3
  /\ \A i \in 1..3 : Failed429(oplog[i])

\* C4: with the default parameters, an operation that fails with 429 on its
\* first three invocations and succeeds on the fourth makes retryWithBackoff
\* return the fourth invocation's result, and each wait of such a run is at
\* least as long as the wait before it, whatever the jitter.
C4_RetryThenSucceed ==
  [][ /\ ( /\ rb.maxRetries = DefaultMaxRetries
           /\ rb'.phase = "waiting"
           /\ \A i \in 1..Len(oplog') : Failed429(oplog'[i]) )
         => rb'.delay >= rb.delay /\ rb'.delay > 0
      /\ ( /\ rb.maxRetries = DefaultMaxRetries
           /\ ThreeTimes429'
           /\ Len(oplog') = 4 /\ oplog'[4].ok )
         => /\ rb'.phase = "resolved"
            /\ rb'.value.invocation = 4
            /\ rb'.calls = 4 ]_vars

C4_Witness ==
  /\ rb.maxRetries = DefaultMaxRetries
  /\ ThreeTimes429
  /\ Len(oplog) = 4 /\ oplog[4].ok
  /\ rb.phase = "resolved"

AuthFailure(e) == ~e.ok /\ e.err.status \in {401, 403}

RetryableClass(e) ==
  /\ ~e.ok
  /\ \/ ~e.online
     \/ e.err.status = 429
     \/ e.err.status >= 500
     \/ e.err.code = "ECONNABORTED"
     \/ e.err.message = "timeout"
  /\ (e.online => e.err.status \notin {401, 403})

ExpectedMessage(e) ==
  IF ~e.online THEN MsgOffline
  ELSE IF e.err.status = 429 THEN MsgRateLimit
  ELSE IF e.err.status >= 500 THEN MsgServer
  ELSE MsgTimeout

AllRetryable == \A i \in 1..Len(oplog) : RetryableClass(oplog[i])

RetrySettled == rb.phase \in {"resolved", "rejected"}

C6_Exhausted ==
  /\ rb.calls <= rb.maxRetries + 1
  /\ rb.calls = Len(oplog) + (IF rb.phase = "calling" THEN 1 ELSE 0)
  /\ (AllRetryable /\ rb.phase = "rejected")
       => /\ rb.calls = rb.maxRetries + 1
          /\ rb.error = ExpectedMessage(oplog[Len(oplog)])
  /\ (AllRetryable /\ Len(oplog) < rb.maxRetries + 1) => rb.phase # "rejected"

\* C6: an operation that fails with a retryable error (offline, 429, 5xx,
\* timeout) on every attempt is invoked exactly maxRetries + 1 times, never
\* more, and retryWithBackoff then throws the categorized message of the
\* last failure; when every attempt settles and every timer fires, the
\* executor settles.
C6_BoundedRetries == [](C6_Exhausted) /\ <>(RetrySettled)

C6_Witness ==
  /\ rb.maxRetries = DefaultMaxRetries
  /\ AllRetryable /\ rb.phase = "rejected" /\ rb.calls = 4

(***************************************************************************)
(* The code that follows JSON.parse, on its own: the validation block of   *)
(* extractBrandIdentity and the "Ensure valid response structure" block of *)
(* analyzeDesign are applied to parsed completions drawn from the sets     *)
(* below.                                                                  *)
(***************************************************************************)
\* what a model may write as a colour: upper and lower case, with and
\* without '#', a colour name, a number, a blank string
ColorPool ==
  << Str(HexRed), Str(<< "0", "0", "f", "f", "0", "0" >>), Str(<< "r", "e", "d" >>),
     Str(HexBlue), NotAString, Str(<< " " >>), Str(HexGreen) >>

GuidePool == << "g1", "g2", "g3", "g4", "g5", "g6", "g7" >>

\* n entries of the pool, from its k-th on, around its end
FromPool(pool, k, n) == [i \in 1..n |-> pool[((k + i - 2) % Len(pool)) + 1]]

Field(kind, v) == [kind |-> kind, v |-> v]

\* a field that is missing or of another type than the one expected
AbsentFields == {Field("missing", << >>), Field("other", << >>)}

ColorFields ==
  AbsentFields \cup
    { Field("array", FromPool(ColorPool, k, n)) : k \in 1..Len(ColorPool), n \in 0..MaxColors }

VoiceLengths == {0, 19, 20, 21}

VoiceFields ==
  AbsentFields
    \cup { Field("string", Repeat(n, "a")) : n \in VoiceLengths }
    \cup { Field("string", << " " >> \o Repeat(n, "a") \o << " ", " " >>) : n \in {18, 19, 20} }

GuideFields ==
  AbsentFields \cup { Field("array", FromPool(GuidePool, 1, n)) : n \in 0..MaxGuides }

BrandSamples ==
  { [op |-> "extract",
     body |-> MkBrandBody(TRUE, c.kind, c.v, v.kind, v.v, g.kind, g.v),
     screenshot |-> sh] :
      c \in ColorFields, v \in VoiceFields, g \in GuideFields, sh \in {NULL, "jpeg1"} }

\* scores in tenths: below, at and above the ends of [0,100], and at the
\* halves that Math.round rounds
ScoreTenths == {-15, -5, -4, 0, 4, 5, 495, 995, 1000, 1004, 1005, 1500}

ScoreValues ==
  {Missing, JsonNull, NotANumber, Coerced(0), Coerced(10), Coerced(855)}
    \cup { Num(t) : t \in ScoreTenths }

EntryPool == << "e1", "e2", "e3", "e4", "e5", "e6", "e7" >>

EntryFields ==
  AbsentFields \cup { Field("array", FromPool(EntryPool, 1, n)) : n \in 0..MaxEntries }

AuditSamples ==
  { [op |-> "analyze",
     body |-> MkAuditBody(TRUE, a, b, a, b, b, f.kind, f.v, r.kind, r.v),
     screenshot |-> NULL] :
      a \in ScoreValues, b \in ScoreValues, f \in EntryFields, r \in EntryFields }

ParseInit ==
  /\ sample \in BrandSamples \cup AuditSamples
  /\ built = NoBuilt
  /\ lookup = NoLookup
  /\ brain = NoBrain
  /\ doc = NoDoc
  /\ mod = NoMod
  /\ ExtraIdle
  /\ FacadeFresh
  /\ panel = "none"
  /\ rb = RetryIdle
  /\ oplog = << >>

\* extractBrandIdentity: "Validate required fields" to "Trim to expected sizes"
Validates ==
  /\ sample.op = "extract"
  /\ built = NoBuilt
  /\ built' = [op |-> "extract", verdict |-> ValidateBrand(sample.body, sample.screenshot)]
  /\ UNCHANGED <<sample, lookup, uiVars, mod, extraVars, facadeVars, retryVars>>

\* analyzeDesign: "Ensure valid response structure"
Ensures ==
  /\ sample.op = "analyze"
  /\ built = NoBuilt
  /\ built' = [op |-> "analyze", result |-> BuildAnalysis(sample.body)]
  /\ UNCHANGED <<sample, lookup, uiVars, mod, extraVars, facadeVars, retryVars>>

ParseNext == Validates \/ Ensures

SpecParse == ParseInit /\ [][ParseNext]_vars

(***************************************************************************)
(* The cache on its own: getCachedData and setCachedData are called with   *)
(* the keys of three requests while time passes and the key is changed.    *)
(***************************************************************************)
\* requests whose keys differ
CacheRequests == {"textCars", "shotOne", "auditOne"}

KeyOf(r) ==
  IF Request(r).op = "extract" THEN BrandCacheKey(Request(r)) ELSE DesignCacheKey(Request(r))

\* what the operation of the request stores
ResultOf(r) ==
  IF Request(r).op = "extract"
    THEN ValidateBrand(BrandBody("good"), Request(r).screenshot).data
    ELSE BuildAnalysis(AuditBody("audit"))

CacheInit ==
  /\ FacadeFresh
  /\ panel = "none"
  /\ rb = RetryIdle
  /\ oplog = << >>
  /\ AsideIdle

\* const cachedResult = this.getCachedData(cacheKey)
CacheGet(r) ==
  LET k == KeyOf(r)
      g == GetCachedData(cache, k, now)
  IN
  /\ cache' = g.map
  /\ lookup' = [key |-> k, found |-> g.found,
             data |-> IF g.found THEN cache[k].data ELSE NoBrandData]
  /\ UNCHANGED <<client, apiKey, now, ticks, faults, panel, calls, retryVars, parseVars, uiVars, mod,
               extraVars>>

\* this.setCachedData(cacheKey, result)
CacheSet(r) ==
  /\ cache' = SetCachedData(cache, KeyOf(r), ResultOf(r), now, DefaultTTL, r)
  /\ UNCHANGED <<client, apiKey, now, ticks, faults, panel, calls, retryVars, asideVars>>

CacheNext ==
  \/ \E r \in CacheRequests : CacheGet(r)
  \/ \E r \in CacheRequests : CacheSet(r)
  \/ \E d \in TickSteps : Tick(d)
  \/ \E input \in KeyInputs : SetApiKey(input)

SpecCache == CacheInit /\ [][CacheNext]_vars

\* the entry is past its TTL
Expired(entry) == now - entry.timestamp >= entry.ttl

\* getCachedData returns a value exactly when the key has an entry that is
\* not expired, and returns that entry's data
ReturnsFresh(r) ==
  CacheGet(r) =>
    /\ lookup'.found <=> (KeyOf(r) \in DOMAIN cache /\ ~Expired(cache[KeyOf(r)]))
    /\ lookup'.found => lookup'.data = cache[KeyOf(r)].data

\* an entry leaves the cache only in the getCachedData call that looks its
\* key up and finds it expired; every other entry stays as it is unless
\* setCachedData writes its key
RemovedOnLookup(k) ==
  /\ k \notin DOMAIN cache' =>
       /\ Expired(cache[k])
       /\ \E r \in CacheRequests : KeyOf(r) = k /\ CacheGet(r)
  /\ (k \in DOMAIN cache' /\ cache'[k] # cache[k]) =>
       \E r \in CacheRequests : KeyOf(r) = k /\ CacheSet(r)

\* C15: getCachedData(key) returns a value only if an entry for key exists
\* and now - timestamp < ttl; an expired entry is removed only by the
\* getCachedData call that looks it up, and neither the passage of time nor
\* setCachedData on another key nor setApiKey removes or changes an entry.
C15_LazyExpiry ==
  [][/\ \A r \in CacheRequests : ReturnsFresh(r)
     /\ \A k \in DOMAIN cache : RemovedOnLookup(k)]_vars

\* an expired entry was looked up and removed while another expired entry,
\* not looked up, is still in the cache
C15_Witness ==
  /\ lookup.key # NoKey /\ ~lookup.found /\ lookup.key \notin DOMAIN cache
  /\ \E k \in DOMAIN cache : Expired(cache[k]) /\ k # lookup.key
  /\ ~client.isNull

(***************************************************************************)
(* BrandBrain (About.tsx): the extraction handlers and cancelExtraction.   *)
(* A handler runs to its await in one step and resumes in another when     *)
(* extractBrandIdentity settles; the component's state is what the last    *)
(* render committed, and a handler reads the values of the render in which *)
(* it was created.                                                         *)
(***************************************************************************)
RunIds == 1..MaxRuns

\* the url field: its text, and whether new URL(text) succeeds
UrlInputs ==
  { [text |-> << "a", "c", "m", "e" >>, parses |-> FALSE],
    [text |-> << " ", " " >>, parses |-> FALSE],
    [text |-> << "h", "t", "t", "p", "s", ":", "/", "/", "a", ".", "c", "o" >>,
     parses |-> TRUE] }

\* the manual text field
ManualTexts ==
  { << " ", " " >>, << " ", "A", "c", "m", "e", " ", "C", "o", "r", "p", " " >>,
    << "A", "c", "m", "e", " ", "r", "o", "b", "o", "t", "s" >> }

\* new URL(string) does not throw
IsValidUrl(u) == u.parses

\* how extractBrandIdentity settles: it resolves with the brand data or
\* rejects with the Error its catch block builds
ExtractSettles ==
  { [ok |-> TRUE, data |-> ResultOf("textCars"), name |-> NULL, message |-> NULL],
    [ok |-> FALSE, data |-> NoBrandData, name |-> "Error",
     message |-> "Brand analysis failed: Invalid response" ],
    [ok |-> FALSE, data |-> NoBrandData, name |-> "Error",
     message |-> "Brand analysis failed: Rate limit exceeded" ] }

IdleRun ==
  [pc |-> "idle", mode |-> "none", isCancelled |-> FALSE, signalAborted |-> FALSE,
   applied |-> FALSE, shown |-> FALSE]

\* the state of the component after its first render
BrainFresh ==
  [mounted |-> TRUE, loading |-> FALSE, error |-> NULL, abortController |-> 0,
   progress |-> "", isCancelled |-> FALSE, brandData |-> NoBrandData,
   runs |-> [r \in RunIds |-> IdleRun]]

\* the next handler run
FirstIdle(r) ==
  /\ brain.runs[r].pc = "idle"
  /\ \A q \in RunIds : q < r => brain.runs[q].pc # "idle"

\* const controller = new AbortController() ... up to the await: the run
\* keeps the isCancelled of the render that created its handler
Begin(r, mode) ==
  [brain EXCEPT !.abortController = r, !.isCancelled = FALSE, !.loading = TRUE,
                !.error = NULL, !.progress = "extractingBrandData",
                !.runs[r] = [IdleRun EXCEPT !.pc = "awaiting", !.mode = mode,
                                            !.isCancelled = brain.isCancelled]]

\* the click on the extract button of the url tab
HandleExtract(u) ==
  /\ brain.mounted
  /\ ~brain.loading /\ Trim(u.text) # << >>
  /\ IF Trim(u.text) = << >>
       THEN brain' = [brain EXCEPT !.error = "urlRequired"]
       ELSE IF ~IsValidUrl(u)
         THEN brain' = [brain EXCEPT !.error = "invalidUrl"]
         ELSE \E r \in RunIds : FirstIdle(r) /\ brain' = Begin(r, "url")
  /\ UNCHANGED <<facadeVars, retryVars, parseVars, lookup, doc, mod, extraVars>>

\* the click on the extract button of the text tab
HandleManualExtract(text) ==
  /\ brain.mounted
  /\ ~brain.loading /\ Trim(text) # << >>
  /\ IF Trim(text) = << >>
       THEN brain' = [brain EXCEPT !.error = "textRequired"]
       ELSE IF Len(Trim(text)) < 10
         THEN brain' = [brain EXCEPT !.error = "textTooShort"]
         ELSE \E r \in RunIds : FirstIdle(r) /\ brain' = Begin(r, "text")
  /\ UNCHANGED <<facadeVars, retryVars, parseVars, lookup, doc, mod, extraVars>>

\* the click on the cancel button, rendered while loading && abortController
CancelExtraction ==
  /\ brain.mounted
  /\ brain.loading /\ brain.abortController # 0
  /\ brain' = [brain EXCEPT !.runs[brain.abortController].signalAborted = TRUE,
                            !.isCancelled = TRUE, !.abortController = 0,
                            !.loading = FALSE, !.progress = ""]
  /\ UNCHANGED <<facadeVars, retryVars, parseVars, lookup, doc, mod, extraVars>>

\* the catch block lets the error pass without showing it
TreatsAsCancelled(run, out) == out.name = "AbortError" \/ run.isCancelled

\* finally { setLoading(false); setAbortController(null); setProgress('') }
Over(r) ==
  [brain EXCEPT !.loading = FALSE, !.abortController = 0, !.progress = "",
                !.runs[r].pc = "done"]

\* the rest of the try, the catch and the finally of run r, whose await
\* ended with out
Settled(r, out) ==
  LET run == brain.runs[r] IN
  IF out.ok
    THEN [Over(r) EXCEPT !.brandData = out.data, !.runs[r].applied = TRUE]
    ELSE IF TreatsAsCancelled(run, out)
      THEN Over(r)
      ELSE [Over(r) EXCEPT !.error = out.message, !.runs[r].shown = TRUE]

\* the extractBrandIdentity call of run r settles
Resumes(r, out) ==
  /\ brain.mounted
  /\ brain.runs[r].pc = "awaiting"
  /\ brain' = Settled(r, out)
  /\ UNCHANGED <<facadeVars, retryVars, parseVars, lookup, doc, mod, extraVars>>

\* the image files the upload control accepted into uploadedImage
ImageFiles ==
  { [size |-> 0, type |-> "image/png"], [size |-> 2048, type |-> "image/jpeg"],
    [size |-> MaxImageSize, type |-> "image/webp"] }

\* validateImageFile(file): null, or the message to show
ValidateImageFile(file) ==
  IF file.size > MaxImageSize THEN "File size must be less than 10MB"
  ELSE IF file.type \notin {"image/jpeg", "image/jpg", "image/png", "image/webp"}
    THEN "invalidFileType"
    ELSE NULL

\* the click on the extract button of the image tab: up to the await of
\* the FileReader
HandleImageExtract(file) ==
  /\ brain.mounted
  /\ ~brain.loading
  /\ IF ValidateImageFile(file) # NULL
       THEN brain' = [brain EXCEPT !.error = ValidateImageFile(file)]
       ELSE \E r \in RunIds :
              /\ FirstIdle(r)
              /\ brain' = [Begin(r, "image") EXCEPT !.progress = "convertingImage",
                                                    !.runs[r].pc = "reading"]
  /\ UNCHANGED <<facadeVars, retryVars, parseVars, lookup, doc, mod, extraVars>>

\* reader.onerror: reject(new Error(t('imageReadError')))
ReadFailure ==
  [ok |-> FALSE, data |-> NoBrandData, name |-> "Error", message |-> "imageReadError"]

\* the FileReader of run r is done: extractBrandIdentity is called with the
\* base64 data, or the catch block takes the read error
ImageRead(r, ok) ==
  /\ brain.mounted
  /\ brain.runs[r].pc = "reading"
  /\ brain' = IF ok THEN [brain EXCEPT !.progress = "analyzingImage",
                                       !.runs[r].pc = "awaiting"]
                    ELSE Settled(r, ReadFailure)
  /\ UNCHANGED <<facadeVars, retryVars, parseVars, lookup, doc, mod, extraVars>>

BrainInit ==
  /\ brain = BrainFresh
  /\ doc = NoDoc
  /\ mod = NoMod
  /\ ExtraIdle
  /\ sample = NoSample /\ built = NoBuilt /\ lookup = NoLookup
  /\ FacadeFresh
  /\ panel = "none"
  /\ rb = RetryIdle
  /\ oplog = << >>

BrainNext ==
  \/ \E u \in UrlInputs : HandleExtract(u)
  \/ \E text \in ManualTexts : HandleManualExtract(text)
  \/ \E file \in ImageFiles : HandleImageExtract(file)
  \/ \E r \in RunIds, ok \in BOOLEAN : ImageRead(r, ok)
  \/ CancelExtraction
  \/ \E r \in RunIds, out \in ExtractSettles : Resumes(r, out)

SpecBrain == BrainInit /\ [][BrainNext]_vars

\* C16: once the user has cancelled an extraction that is in flight, its
\* result is not applied (setBrandData is not called with it) and no error
\* is shown for it.
C16_CancelledResultDropped ==
  \A r \in RunIds :
    brain.runs[r].signalAborted => (~brain.runs[r].applied /\ ~brain.runs[r].shown)

\* C24: while the extractBrandIdentity call of a handler run is pending and
\* the run has not been cancelled, loading is true and the abortController
\* in state is the controller of that run; the settlement of an earlier,
\* cancelled call resets neither.
C24_InFlightKeepsController ==
  \A r \in RunIds :
    (brain.runs[r].pc = "awaiting" /\ ~brain.runs[r].signalAborted) =>
      (brain.loading /\ brain.abortController = r)

(***************************************************************************)
(* The document sandbox (code.ts): addImageToDocument.  The function runs  *)
(* to its await in one step; the callback passed to then() runs when the   *)
(* bitmap has loaded; the function resumes after the await, or in its      *)
(* catch block, and settles the promise it returned.                       *)
(***************************************************************************)
ImageIds == 1..MaxImages

IdleImage ==
  [pc |-> "idle", loaded |-> FALSE, appended |-> FALSE, failed |-> FALSE,
   thrownBy |-> "none", signal |-> "none"]

\* runtime.exposeApi(sandboxApi): nothing in the document, no call made
DocFresh ==
  [exposed |-> TRUE, children |-> << >>, images |-> [i \in ImageIds |-> IdleImage],
   boxes |-> << >>]

\* the children of the insertion parent: the container of the image of
\* call i, or the group of the nth createTextBox call
ImageContainer(i) == [kind |-> "image", of |-> i, children |-> << >>, filled |-> FALSE]
TextBoxGroup(n, filled) ==
  [kind |-> "group", of |-> n, children |-> << "rectangle", "text" >>, filled |-> filled]

\* no catch block: the exception leaves the function
AfterThrowUncaught(img) == [img EXCEPT !.failed = TRUE, !.pc = "throwing"]

\* catch (error) { }: the exception ends in the empty catch block
AfterThrow(img) == [img EXCEPT !.failed = TRUE, !.pc = "returning"]

\* what the step leaves alone
DocOnly == UNCHANGED <<facadeVars, retryVars, parseVars, lookup, brain, mod, extraVars>>

\* addImageToDocument(imageBlob) up to the await; reading the insertion
\* parent or starting the load may throw
AddImageToDocument(i, throws) ==
  /\ doc.exposed
  /\ doc.images[i].pc = "idle"
  /\ doc' = [doc EXCEPT !.images[i] =
               IF throws THEN AfterThrow([@ EXCEPT !.thrownBy = "insertionParent"])
                         ELSE [@ EXCEPT !.pc = "loading"]]
  /\ DocOnly

\* loadBitmapImage fulfils: the callback creates the container and appends it
BitmapLoaded(i, outcome) ==
  /\ doc.exposed
  /\ doc.images[i].pc = "loading"
  /\ doc' = CASE outcome = "ok" ->
                   [doc EXCEPT !.children = Append(@, ImageContainer(i)),
                               !.images[i] = [@ EXCEPT !.loaded = TRUE, !.appended = TRUE,
                                                       !.pc = "returning"]]
              [] outcome = "createThrows" ->
                   [doc EXCEPT !.images[i] =
                      AfterThrow([@ EXCEPT !.loaded = TRUE,
                                           !.thrownBy = "createImageContainer"])]
              [] OTHER ->
                   [doc EXCEPT !.images[i] =
                      AfterThrow([@ EXCEPT !.loaded = TRUE, !.thrownBy = "append"])]
  /\ DocOnly

\* loadBitmapImage rejects
BitmapFails(i) ==
  /\ doc.exposed
  /\ doc.images[i].pc = "loading"
  /\ doc' = [doc EXCEPT !.images[i] = AfterThrow([@ EXCEPT !.thrownBy = "loadBitmapImage"])]
  /\ DocOnly

\* the async function ends: the promise it returned settles
Settles(i) ==
  /\ doc.exposed
  /\ doc.images[i].pc \in {"returning", "throwing"}
  /\ doc' = [doc EXCEPT !.images[i] =
               [@ EXCEPT !.pc = "done",
                         !.signal = IF doc.images[i].pc = "throwing"
                                      THEN "rejected" ELSE "resolved"]]
  /\ DocOnly

LoadOutcomes == {"ok", "createThrows", "appendThrows"}

DocInit ==
  /\ doc = DocFresh
  /\ brain = NoBrain
  /\ mod = NoMod
  /\ ExtraIdle
  /\ sample = NoSample /\ built = NoBuilt /\ lookup = NoLookup
  /\ FacadeFresh
  /\ panel = "none"
  /\ rb = RetryIdle
  /\ oplog = << >>

DocNext ==
  \/ \E i \in ImageIds, throws \in BOOLEAN : AddImageToDocument(i, throws)
  \/ \E i \in ImageIds, outcome \in LoadOutcomes : BitmapLoaded(i, outcome)
  \/ \E i \in ImageIds : BitmapFails(i)
  \/ \E i \in ImageIds : Settles(i)

SpecDoc == DocInit /\ [][DocNext]_vars

(***************************************************************************)
(* createTextBox: a synchronous function, one step from call to return.    *)
(* Any of its calls into the editor may throw.                             *)
(***************************************************************************)
\* the calls of createTextBox that may throw, in program order
TextBoxSteps ==
  << "insertionParent", "createRectangle", "makeColorFill", "createText",
     "applyCharacterStyles", "createGroup", "appendRect", "appendText", "appendGroup" >>

StepIndex(step) == CHOOSE k \in 1..Len(TextBoxSteps) : TextBoxSteps[k] = step

\* where a call may fail: nowhere, or at one of its steps; makeColorFill
\* runs only when a background colour was passed
FailurePoints(hasBackground) ==
  ({"none"} \cup { TextBoxSteps[k] : k \in 1..Len(TextBoxSteps) })
    \ (IF hasBackground THEN {} ELSE {"makeColorFill"})

\* the step was completed before the call failed (or the call did not fail)
Reached(step, failedAt) == failedAt = "none" \/ StepIndex(step) < StepIndex(failedAt)

\* each node is put into the document when it is created
ParentAfterTextBoxPiecewise(children, n, hasBackground, failedAt) ==
  LET withRect == IF Reached("createRectangle", failedAt)
                    THEN Append(children, [kind |-> "rectangle", of |-> n, children |-> << >>,
                                            filled |-> FALSE])
                    ELSE children
  IN IF Reached("appendGroup", failedAt)
       THEN Append(withRect, TextBoxGroup(n, hasBackground)) ELSE withRect

\* the children of the insertion parent after the nth call: the rectangle
\* and the text go into the group, and the only append to the parent is
\* the last statement of the try block
ParentAfterTextBox(children, n, hasBackground, failedAt) ==
  IF Reached("appendGroup", failedAt)
    THEN Append(children, TextBoxGroup(n, hasBackground))
    ELSE children

\* createTextBox(options): catch (e) { } swallows whatever was thrown
CreateTextBox(hasBackground, failedAt) ==
  LET n == Len(doc.boxes) + 1 IN
  /\ doc.exposed
  /\ Len(doc.boxes) < MaxBoxes
  /\ failedAt \in FailurePoints(hasBackground)
  /\ doc' = [doc EXCEPT
               !.children = ParentAfterTextBox(@, n, hasBackground, failedAt),
               !.boxes = Append(@, [background |-> hasBackground, failedAt |-> failedAt,
                                    threw |-> FALSE])]
  /\ DocOnly

\* the image calls of this specification
BoxImageIds == {1}

BoxNext ==
  \/ \E hasBackground \in BOOLEAN, failedAt \in FailurePoints(TRUE) :
       CreateTextBox(hasBackground, failedAt)
  \/ \E i \in BoxImageIds, throws \in BOOLEAN : AddImageToDocument(i, throws)
  \/ \E i \in BoxImageIds, outcome \in LoadOutcomes : BitmapLoaded(i, outcome)
  \/ \E i \in BoxImageIds : BitmapFails(i)
  \/ \E i \in BoxImageIds : Settles(i)

SpecBox == DocInit /\ [][BoxNext]_vars

\* the step is a createTextBox call
TextBoxCalled == Len(doc'.boxes) = Len(doc.boxes) + 1

\* C29: createTextBox is all-or-nothing with respect to the document: each
\* call either appends exactly one group node, holding the background
\* rectangle followed by the text node, to the insertion parent, or, when a
\* step fails, appends nothing to the insertion parent; no error reaches
\* the caller.
C29_TextBoxAllOrNothing ==
  [][TextBoxCalled =>
       LET n == Len(doc'.boxes)
           box == doc'.boxes[n]
       IN
       /\ ~box.threw
       /\ IF box.failedAt = "none"
            THEN /\ Len(doc'.children) = Len(doc.children) + 1
                 /\ SubSeq(doc'.children, 1, Len(doc.children)) = doc.children
                 /\ doc'.children[Len(doc'.children)].kind = "group"
                 /\ doc'.children[Len(doc'.children)].children = << "rectangle", "text" >>
            ELSE doc'.children = doc.children]_vars

\* one call put its group into the document after an image, another failed
\* at the last append, with the rectangle and the text already in its group
C29_Witness ==
  /\ Len(doc.boxes) = 2
  /\ \E a, b \in 1..2 :
       /\ doc.boxes[a].failedAt = "none" /\ doc.boxes[a].background
       /\ doc.boxes[b].failedAt = "appendGroup"
       /\ doc.children = << ImageContainer(1), TextBoxGroup(a, TRUE) >>

\* the container of call i is among the children of the insertion parent
Inserted(i) == \E n \in 1..Len(doc.children) : doc.children[n] = ImageContainer(i)

\* C18: the promise returned by addImageToDocument never rejects, and it
\* resolves only after the bitmap was loaded and its container appended to
\* the insertion parent, or after loading or insertion failed.
C18_CompletionAfterInsertion ==
  \A i \in ImageIds :
    /\ doc.images[i].signal # "rejected"
    /\ doc.images[i].signal = "resolved" =>
         \/ doc.images[i].loaded /\ doc.images[i].appended /\ Inserted(i)
         \/ doc.images[i].failed

\* one call has completed with its image in the document and another has
\* completed after its load failed, while a third is still loading
C18_Witness ==
  \E i, j, k \in ImageIds :
    /\ doc.images[i].signal = "resolved" /\ Inserted(i) /\ ~doc.images[i].failed
    /\ doc.images[j].signal = "resolved" /\ doc.images[j].failed /\ ~Inserted(j)
    /\ doc.images[k].pc = "loading"

(***************************************************************************)
(* The moderation checks on their own: containsExplicitContent,            *)
(* containsToxicContent and containsNSFWContent are called with values of  *)
(* every kind while the key is set and cleared.                            *)
(***************************************************************************)
JsValue(kind, chars) == [kind |-> kind, chars |-> chars]

\* what a caller can pass where the signature says string
CheckInputs ==
  { JsValue("undefined", << >>), JsValue("null", << >>), JsValue("zero", << >>),
    JsValue("number", << >>), JsValue("object", << >>),
    JsValue("string", << >>), JsValue("string", << " " >>),
    JsValue("string", << "A", "c", "m", "e" >>) }

\* !value
Falsy(v) ==
  \/ v.kind \in {"undefined", "null", "zero"}
  \/ v.kind = "string" /\ Len(v.chars) = 0

\* the check returns false only for what is falsy
SkipsCheckUntyped(v) == Falsy(v)

\* if (!text || typeof text !== 'string') return false
SkipsCheck(v) == Falsy(v) \/ v.kind # "string"

CheckFns == {"explicit", "toxic", "nsfw"}

\* no check made yet, no classifier loaded
ModFresh ==
  [active |-> TRUE, toxicityModel |-> FALSE, nsfwModel |-> FALSE, fn |-> "none",
   input |-> JsValue("undefined", << >>), pc |-> "idle", result |-> FALSE,
   classifier |-> FALSE, local |-> "none", fetches |-> 0, llm |-> 0]

ModOnly == UNCHANGED <<facadeVars, retryVars, parseVars, lookup, brain, doc, extraVars>>

\* the classifier of the check is in this.toxicityModel / this.nsfwModel
Loaded(m) == IF m.fn = "toxic" THEN m.toxicityModel ELSE m.nsfwModel

\* one of the three checks is called: up to its first await
Check(fn, v) ==
  LET begun == [mod EXCEPT !.fn = fn, !.input = v, !.result = FALSE,
                           !.classifier = FALSE, !.local = "none", !.fetches = 0,
                           !.llm = 0]
  IN
  /\ mod.active
  /\ mod.pc \in {"idle", "done"}
  /\ mod' = IF SkipsCheck(v) THEN [begun EXCEPT !.pc = "done"]
            ELSE IF fn = "explicit" THEN [begun EXCEPT !.pc = "fetch", !.fetches = 1]
            ELSE [begun EXCEPT !.pc = "local", !.classifier = TRUE]
  /\ ModOnly

\* the request to the profanity service ends
FetchSettles(outcome) ==
  /\ mod.active
  /\ mod.pc = "fetch"
  /\ mod' = [mod EXCEPT !.pc = "done", !.result = (outcome = "true")]
  /\ ModOnly

FetchOutcomes == {"true", "false", "notOk", "networkError"}

\* the fallback is asked unless the classifier found the content unsafe
ReachesFallbackUnlessUnsafe(outcome) == outcome # "unsafe"

\* the try block of the classifier path threw: control reaches the fallback
ReachesFallback(outcome) == outcome \notin {"safe", "unsafe"}

\* the local classifier path ends; on a failure the fallback starts with
\* ensureClient()
ClassifierSettles(outcome) ==
  LET seen == [mod EXCEPT !.local = outcome]
      kept == IF outcome \in {"safe", "unsafe", "classifyError"}
                THEN IF mod.fn = "toxic" THEN [seen EXCEPT !.toxicityModel = TRUE]
                                         ELSE [seen EXCEPT !.nsfwModel = TRUE]
                ELSE seen
  IN
  /\ mod.active
  /\ mod.pc = "local"
  /\ outcome \in {"loadError", "loadTimeout"} => ~Loaded(mod)
  /\ mod' = IF ~ReachesFallback(outcome)
              THEN [kept EXCEPT !.pc = "done", !.result = (outcome = "unsafe")]
            ELSE IF EnsureClientThrows(client)
              THEN [kept EXCEPT !.pc = "done", !.result = FALSE]
              ELSE [kept EXCEPT !.pc = "groq"]
  /\ ModOnly

\* the fallback's retryWithBackoff run ends
FallbackSettles(run) ==
  /\ mod.active
  /\ mod.pc = "groq"
  /\ mod' = [mod EXCEPT !.pc = "done", !.result = FallbackSays(run), !.llm = run.calls]
  /\ ModOnly

ModInit ==
  /\ mod = ModFresh
  /\ ExtraIdle
  /\ brain = NoBrain /\ doc = NoDoc
  /\ sample = NoSample /\ built = NoBuilt /\ lookup = NoLookup
  /\ FacadeFresh
  /\ panel = "none"
  /\ rb = RetryIdle
  /\ oplog = << >>

ModNext ==
  \/ \E fn \in CheckFns, v \in CheckInputs : Check(fn, v)
  \/ \E outcome \in FetchOutcomes : FetchSettles(outcome)
  \/ \E outcome \in LocalOutcomes : ClassifierSettles(outcome)
  \/ \E run \in FallbackRuns : FallbackSettles(run)
  \/ \E input \in KeyInputs : SetApiKey(input)

SpecMod == ModInit /\ [][ModNext]_vars

\* the value is not a string, or is the empty string
EmptyOrNonString(v) == v.kind # "string" \/ v.chars = << >>

\* C19: called with an empty string or with a value that is not a string,
\* each of the three checks returns false (safe) at once: no classifier is
\* loaded or used and no request goes to the network or to the LLM.
C19_EmptyInputSafe ==
  (mod.fn # "none" /\ EmptyOrNonString(mod.input)) =>
    /\ mod.pc = "done" /\ mod.result = FALSE
    /\ ~mod.classifier /\ mod.fetches = 0 /\ mod.llm = 0

\* with no classifier loaded and a key set, the image check was called with
\* a number and has returned
C19_Witness ==
  /\ mod.fn = "nsfw" /\ mod.input.kind = "number" /\ mod.pc = "done"
  /\ ~mod.nsfwModel /\ ~client.isNull

\* the classifier path of the check failed
ClassifierFailed == mod.local \in {"loadError", "loadTimeout", "classifyError"}

\* C22: containsToxicContent asks the classifier first and turns to the
\* Groq fallback only after the classifier path failed (load error, load
\* not finished in 10 s, classify error); a verdict of the classifier is
\* returned as it is, with no Groq moderation call.
C22_ClassifierFirst ==
  mod.fn = "toxic" =>
    /\ (mod.pc = "groq" \/ mod.llm > 0) => (mod.classifier /\ ClassifierFailed)
    /\ mod.local \in {"safe", "unsafe"} =>
         /\ mod.pc = "done" /\ mod.llm = 0
         /\ mod.result = (mod.local = "unsafe")

\* the classifier failed to load and the fallback answered after a retry
C22_Witness ==
  /\ mod.fn = "toxic" /\ mod.pc = "done" /\ mod.local = "loadError"
  /\ mod.llm = 2 /\ mod.result

(***************************************************************************)
(* Two extractBrandIdentity calls with the same arguments, made while a    *)
(* key is configured; the second may begin before the first has ended.     *)
(* Each call is the facade call of the model, run in a slot of its own.    *)
(***************************************************************************)
TwinIds == {1, 2}

\* the arguments of both calls
TwinRequest == "textCars"

\* what the completions of the two calls may be
TwinResponses == {"good", "loose", "twoColors", "malformed"}

\* how the classifier path of a check may end, and how a completion may fail
TwinOutcomes == {"safe", "unsafe", "loadError"}
TwinErrors == {E429, E401}

TwinsFresh ==
  [active |-> TRUE, calls |-> [c \in TwinIds |-> IdleCall], overlapped |-> FALSE,
   last |-> 0]

TwinsOnly ==
  UNCHANGED <<client, apiKey, now, ticks, faults, panel, calls, retryVars, parseVars,
              lookup, uiVars, mod, settings>>

TwinInFlight(c) == twins.calls[c].pc \notin {"idle", "done"}

\* the call in slot c moves on; a call that returns its result stores it
TwinCommit(c, after, map, overlaps) ==
  /\ twins' = [twins EXCEPT !.calls[c] = after,
                            !.overlapped = @ \/ overlaps,
                            !.last = IF after.pc = "done" /\ after.wrote THEN c ELSE @]
  /\ cache' = IF after.pc = "done" /\ after.wrote
                THEN SetCachedData(map, after.key, after.data, now, DefaultTTL, c)
                ELSE map

\* extractBrandIdentity is called: cache key, cache lookup, input check
TwinStart(c) ==
  LET req == Request(TwinRequest)
      base == [IdleCall EXCEPT !.req = TwinRequest]
      key == BrandCacheKey(req)
      got == GetCachedData(cache, key, now)
      overlaps == \E d \in TwinIds \ {c} : TwinInFlight(d)
  IN
  /\ twins.active
  /\ twins.calls[c].pc = "idle"
  /\ IF got.found
       THEN TwinCommit(c, Return([base EXCEPT !.key = key, !.hit = TRUE], cache[key].data),
                       got.map, FALSE)
       ELSE TwinCommit(c, Enter([base EXCEPT !.key = key], 1, client), got.map, overlaps)
  /\ TwinsOnly

\* the classifier path of a moderation check of call c ends
TwinLocalSettles(c, outcome) ==
  LET call == twins.calls[c] IN
  /\ twins.active
  /\ call.pc = "modLocal"
  /\ IF outcome \in {"safe", "unsafe"} THEN
       TwinCommit(c, AfterVerdict(call, outcome = "unsafe", client), cache, FALSE)
     ELSE IF EnsureClientThrows(client) THEN
       TwinCommit(c, AfterVerdict([call EXCEPT !.failedOpen = TRUE], FALSE, client), cache,
                  FALSE)
     ELSE
       TwinCommit(c, [call EXCEPT !.pc = "modGroq", !.fallbacks = call.fallbacks + 1], cache,
                  FALSE)
  /\ TwinsOnly

\* the Groq fallback of a moderation check of call c answers
TwinGroqSettles(c, unsafe) ==
  LET call == twins.calls[c] IN
  /\ twins.active
  /\ call.pc = "modGroq"
  /\ TwinCommit(c, AfterVerdict(call, unsafe, client), cache, FALSE)
  /\ TwinsOnly

\* the main completion of call c arrives
TwinMainResolves(c, resp) ==
  LET call == twins.calls[c] IN
  /\ twins.active
  /\ call.pc = "llm"
  /\ TwinCommit(c, OnCompletion([call EXCEPT !.rb = RetryIdle], resp, client), cache, FALSE)
  /\ TwinsOnly

\* the main completion of call c fails
TwinMainRejects(c, err) ==
  LET call == twins.calls[c]
      r == RetryReject(call.rb, err, TRUE, 0)
  IN
  /\ twins.active
  /\ call.pc = "llm"
  /\ IF r.phase = "rejected"
       THEN TwinCommit(c, Throw(call, "transport", TRUE, r.error), cache, FALSE)
       ELSE TwinCommit(c, [call EXCEPT !.pc = "sleep", !.rb = r], cache, FALSE)
  /\ TwinsOnly

\* the backoff timer of call c fires
TwinMainTimer(c) ==
  LET call == twins.calls[c] IN
  /\ twins.active
  /\ call.pc = "sleep"
  /\ TwinCommit(c, [call EXCEPT !.pc = "llm", !.rb = RetryWake(call.rb),
                                !.mainCalls = call.mainCalls + 1], cache, FALSE)
  /\ TwinsOnly

TwinsInit ==
  /\ twins = TwinsFresh
  /\ settings = NoSettings
  /\ client = SetApiKeyResult(Str(<< "k" >>)).client
  /\ apiKey = SetApiKeyResult(Str(<< "k" >>)).apiKey
  /\ cache = EmptyCache
  /\ now = 0 /\ ticks = 0 /\ faults = 0
  /\ calls = [c \in CallIds |-> IdleCall]
  /\ panel = "none"
  /\ rb = RetryIdle
  /\ oplog = << >>
  /\ sample = NoSample /\ built = NoBuilt /\ lookup = NoLookup
  /\ brain = NoBrain /\ doc = NoDoc /\ mod = NoMod

TwinsNext ==
  \/ \E c \in TwinIds : TwinStart(c)
  \/ \E c \in TwinIds, outcome \in TwinOutcomes : TwinLocalSettles(c, outcome)
  \/ \E c \in TwinIds, unsafe \in BOOLEAN : TwinGroqSettles(c, unsafe)
  \/ \E c \in TwinIds, resp \in TwinResponses : TwinMainResolves(c, resp)
  \/ \E c \in TwinIds, err \in TwinErrors : TwinMainRejects(c, err)
  \/ \E c \in TwinIds : TwinMainTimer(c)

SpecTwins == TwinsInit /\ [][TwinsNext]_vars

(***************************************************************************)
(* The Settings panel: the key field, the host key-value storage under     *)
(* 'groqApiKey', and the credential of groqClient                          *)
(***************************************************************************)
\* what the user types into the key field
FieldTexts == { << >>, << " " >>, << "k" >>, << " ", "k", " " >> }

\* a value of the storage item: absent, or a string
NoItem == [present |-> FALSE, chars |-> << >>]
Item(chars) == [present |-> TRUE, chars |-> chars]

\* what the storage may hold when the panel mounts
StoredAtMount == { NoItem, Item(<< >>), Item(<< "k" >>) }

\* `stored || ''`
OrEmpty(item) == IF item.present THEN item.chars ELSE << >>

\* the panel after its first render, the read of the stored key pending
SettingsFresh(item) ==
  [mounted |-> TRUE, apiKey |-> << >>, loadingKey |-> TRUE, saving |-> FALSE,
   message |-> NULL, stored |-> item, pc |-> "idle", pending |-> << >>,
   timers |-> 0, last |-> "none", synced |-> FALSE]

SettingsOnly ==
  UNCHANGED <<cache, now, ticks, faults, panel, calls, retryVars, parseVars, lookup,
              uiVars, mod, twins>>

\* the credential is set before the write is awaited
CredentialBeforeWrite(ok, chars, cl, key) == SetApiKeyResult(Str(chars))

\* the credential after `await clientStorage.setItem(...)` settled: the
\* setApiKey call comes after the await, inside the try
CredentialAfterWrite(ok, chars, cl, key) ==
  IF ok THEN SetApiKeyResult(Str(chars)) ELSE [client |-> cl, apiKey |-> key]

\* onChange of the key field
OnChange(text) ==
  /\ settings.mounted
  /\ settings' = [settings EXCEPT !.apiKey = text]
  /\ UNCHANGED <<client, apiKey>>
  /\ SettingsOnly

\* the getItem of the mount effect settles
KeyLoaded(ok) ==
  /\ settings.mounted /\ settings.loadingKey
  /\ settings' = [settings EXCEPT !.loadingKey = FALSE,
                                  !.apiKey = IF ok THEN OrEmpty(settings.stored) ELSE @]
  /\ UNCHANGED <<client, apiKey>>
  /\ SettingsOnly

\* handleSave up to its await; the buttons are disabled while saving
HandleSave ==
  /\ settings.mounted /\ ~settings.saving
  /\ settings.timers < MaxTimers
  /\ settings' = [settings EXCEPT !.saving = TRUE, !.message = NULL, !.pc = "saving",
                                  !.pending = settings.apiKey]
  /\ UNCHANGED <<client, apiKey>>
  /\ SettingsOnly

\* handleClear up to its await
HandleClear ==
  /\ settings.mounted /\ ~settings.saving
  /\ settings.timers < MaxTimers
  /\ settings' = [settings EXCEPT !.saving = TRUE, !.pc = "clearing", !.pending = << >>]
  /\ UNCHANGED <<client, apiKey>>
  /\ SettingsOnly

\* clientStorage.setItem settles and the handler runs to its end; a write
\* that rejects leaves the item as it was
WriteSettles(ok) ==
  LET clearing == settings.pc = "clearing"
      after == CredentialAfterWrite(ok, settings.pending, client, apiKey)
  IN
  /\ settings.pc \in {"saving", "clearing"}
  /\ client' = after.client
  /\ apiKey' = after.apiKey
  /\ settings' =
       [settings EXCEPT
          !.stored = IF ok THEN Item(settings.pending) ELSE @,
          !.apiKey = IF ok /\ clearing THEN << >> ELSE @,
          !.message = IF clearing THEN (IF ok THEN "Cleared" ELSE "Failed to clear")
                                  ELSE (IF ok THEN "Saved" ELSE "Failed to save"),
          !.last = IF clearing THEN (IF ok THEN "cleared" ELSE "clearFailed")
                               ELSE (IF ok THEN "saved" ELSE "saveFailed"),
          !.synced = @ \/ ok,
          !.saving = FALSE,
          !.timers = @ + 1,
          !.pc = "idle"]
  /\ SettingsOnly

\* a `setTimeout(() => setMessage(null), 3000)` fires
MessageTimer ==
  /\ settings.mounted /\ settings.timers > 0
  /\ settings' = [settings EXCEPT !.message = NULL, !.timers = @ - 1]
  /\ UNCHANGED <<client, apiKey>>
  /\ SettingsOnly

SettingsInit ==
  /\ \E item \in StoredAtMount : settings = SettingsFresh(item)
  /\ twins = NoTwins
  /\ brain = NoBrain /\ doc = NoDoc /\ mod = NoMod
  /\ sample = NoSample /\ built = NoBuilt /\ lookup = NoLookup
  /\ FacadeFresh
  /\ panel = "none"
  /\ rb = RetryIdle
  /\ oplog = << >>

SettingsNext ==
  \/ \E text \in FieldTexts : OnChange(text)
  \/ \E ok \in BOOLEAN : KeyLoaded(ok)
  \/ HandleSave
  \/ HandleClear
  \/ \E ok \in BOOLEAN : WriteSettles(ok)
  \/ MessageTimer

SpecSettings == SettingsInit /\ [][SettingsNext]_vars

(***************************************************************************)
(* Claims about the facade                                                 *)
(***************************************************************************)
\* the step invokes an operation in slot c
Invokes(c) == calls[c].pc \in {"idle", "done"} /\ calls'[c] # calls[c]

Done(c) == calls[c].pc = "done"

OpOf(c) == Request(calls[c].req).op

\* an invocation that finds an entry under its key is served from it while
\* the entry is fresh, and otherwise drops it and goes on
ServedWithinTTL(c) ==
  LET after == calls'[c]
      k == after.key
  IN
  (Invokes(c) /\ k # NoKey /\ k \in DOMAIN cache) =>
    IF now - cache[k].timestamp < cache[k].ttl
      THEN /\ after.pc = "done" /\ after.status = "ok"
           /\ after.data = cache[k].data
           /\ after.mainCalls = 0 /\ after.fallbacks = 0
           /\ cache' = cache
      ELSE /\ ~after.hit /\ after.status # "ok"
           /\ k \notin DOMAIN cache'

\* an invocation whose first attempt obtained the completion has asked for
\* exactly one main completion
FirstAttemptOne(c) ==
  (calls[c].pc = "llm" /\ calls'[c].response # NULL)
    => /\ calls'[c].mainCalls = calls[c].rb.calls
       /\ calls[c].rb.attempt = 0 => calls'[c].mainCalls = 1

\* what is in the cache was written by a successful invocation with that key
WrittenOnSuccess(c) ==
  (Done(c) /\ calls[c].wrote) =>
     /\ calls[c].status = "ok" /\ ~calls[c].hit /\ calls[c].mainCalls >= 1
     /\ OpOf(c) \in {"extract", "analyze"}

\* C1: for extractBrandIdentity and analyzeDesign, a call made while
\* Date.now() - timestamp < ttl of the entry under its key returns the
\* cached value, requests no completion and leaves the cache as it is; a
\* call made once the TTL has elapsed is not served from the entry, and a
\* call that obtains its completion at the first attempt has requested
\* exactly one main completion.
C1_CacheWindow ==
  /\ [](\A c \in CallIds : WrittenOnSuccess(c))
  /\ [][\A c \in CallIds : ServedWithinTTL(c) /\ FirstAttemptOne(c)]_vars

\* a call served from an entry at the last instant of its TTL
C1_Witness ==
  \E c \in CallIds :
    /\ Done(c) /\ calls[c].hit /\ calls[c].status = "ok"
    /\ calls[c].key \in DOMAIN cache
    /\ now - cache[calls[c].key].timestamp = DefaultTTL - 1

\* C2: a call never receives the value cached for a request that differs
\* from its own in website content, screenshot or image.
C2_NoCrossRequestHit ==
  \A c \in CallIds :
    (Done(c) /\ calls[c].hit) => ~DifferentRequests(calls[c].req, calls[c].from)

\* C3: an extractBrandIdentity call whose signal was aborted before the
\* main completion resolved ends as cancelled: it does not return a
\* successful result and it does not write the cache.
C3_AbortCancels ==
  \A c \in CallIds :
    (Done(c) /\ calls[c].aborted) => (calls[c].status # "ok" /\ ~calls[c].wrote)

\* the step is a moderation check that obtains no verdict: the classifier
\* path fails and the fallback has no client, or the fallback's run fails
NoVerdict(c) ==
  \/ /\ client.isNull
     /\ \E o \in LocalOutcomes \ {"safe", "unsafe"} : LocalSettles(c, o)
  \/ /\ calls[c].pc = "modGroq"
     /\ \E run \in FallbackRuns : run.phase = "rejected" /\ GroqModSettles(c, run)

\* C7: a moderation check whose classifier path fails or times out and
\* whose Groq-prompted check fails or has no client answers "safe": the
\* call is not rejected and goes on exactly as after a safe verdict, so
\* that an extractBrandIdentity call with a valid input still succeeds
\* when its main completion does.
C7_FailOpen ==
  [][\A c \in CallIds :
       NoVerdict(c) =>
         /\ calls'[c].error.kind \notin {"inputRejected", "outputRejected"}
         /\ [calls'[c] EXCEPT !.failedOpen = calls[c].failedOpen]
              = AfterVerdict(calls[c], FALSE, client)]_vars

\* an extraction that succeeded although a check of it obtained no verdict
C7_Witness ==
  \E c \in CallIds :
    /\ Done(c) /\ OpOf(c) = "extract" /\ calls[c].failedOpen
    /\ calls[c].status = "ok" /\ calls[c].wrote

\* C8 as stated: while no credential is configured every invocation
\* fails, after any prior sequence of operations, and requests no main
\* completion.
C8_AlwaysFails ==
  \A c \in CallIds :
    (Done(c) /\ calls[c].unconfigured) =>
       (calls[c].status = "error" /\ calls[c].mainCalls = 0)

\* C8, amended: an invocation during which no credential is configured
\* requests no completion, main or moderation; it fails with the
\* configuration error wrapped in its operation's message, unless it is
\* served from the cache, its input is rejected by the local classifier,
\* or its cache key cannot be computed.
C8_UnconfiguredNoCompletion ==
  \A c \in CallIds :
    (Done(c) /\ calls[c].unconfigured) =>
       /\ calls[c].mainCalls = 0 /\ calls[c].fallbacks = 0
       /\ ~calls[c].wrote
       /\ \/ calls[c].hit /\ calls[c].status = "ok"
             /\ OpOf(c) \in {"extract", "analyze"}
          \/ /\ calls[c].status = "error"
             /\ calls[c].error \in
                  { MkError("config", TRUE, MsgNotConfigured),
                    MkError("inputRejected", FALSE, MsgInputRejected),
                    MkError("inputRejected", FALSE, MsgImageRejected),
                    MkError("invalidCharacter", FALSE, "InvalidCharacterError") }
             /\ calls[c].error.kind = "invalidCharacter" => calls[c].key = NoKey

\* an invocation without a credential that failed with the configuration error
C8_Witness ==
  \E c \in CallIds :
    /\ Done(c) /\ calls[c].unconfigured
    /\ calls[c].error = MkError("config", TRUE, MsgNotConfigured)

\* the step is an input moderation check that judges the content unsafe
JudgedUnsafe(c) ==
  /\ calls[c].stage < MainStage(OpOf(c))
  /\ \/ LocalSettles(c, "unsafe")
     \/ /\ calls[c].pc = "modGroq"
        /\ \E run \in FallbackRuns : FallbackSays(run) /\ GroqModSettles(c, run)

\* C9: when an input moderation check judges the text or image unsafe, the
\* operation fails with the content-rejected error, it has requested no
\* main completion, and the cache is left as it was; no step of an
\* invocation before its main completion changes the cache.
C9_InputRejected ==
  [][\A c \in CallIds :
       /\ JudgedUnsafe(c) =>
            /\ calls'[c].pc = "done" /\ calls'[c].status = "error"
            /\ calls'[c].error =
                 MkError("inputRejected", FALSE,
                         IF Stages(OpOf(c))[calls[c].stage] = "inImage"
                           THEN MsgImageRejected ELSE MsgInputRejected)
            /\ calls'[c].mainCalls = 0 /\ ~calls'[c].wrote
            /\ cache' = cache
       /\ (InFlight(c) /\ calls[c].stage < MainStage(OpOf(c))) => cache' = cache]_vars

\* a rejected extractBrandIdentity or analyzeDesign call
C9_Witness ==
  \E c \in CallIds :
    /\ Done(c) /\ calls[c].error.kind = "inputRejected"
    /\ OpOf(c) \in {"extract", "analyze"} /\ calls[c].key # NoKey
    /\ calls[c].key \notin DOMAIN cache

\* the completion is not the JSON asked for: JSON.parse rejects it or a
\* required field is missing or of another type
Defective(resp) ==
  \/ ~BrandBody(resp).json
  \/ BrandBody(resp).colorsKind # "array"
  \/ BrandBody(resp).voiceKind # "string"
  \/ BrandBody(resp).guidesKind # "array"

\* an extraction that ended after a defective completion
EndedDefective(c) ==
  /\ Done(c) /\ OpOf(c) = "extract"
  /\ calls[c].response # NULL /\ Defective(calls[c].response)

\* C10 as stated: such an invocation has requested exactly one main completion.
C10_ExactlyOneCall ==
  \A c \in CallIds :
    EndedDefective(c) => (calls[c].status = "error" /\ calls[c].mainCalls = 1)

\* the failure is the operation's own error and nothing is returned or cached
FailsAsOperation(c) ==
  EndedDefective(c) =>
    /\ calls[c].status = "error" /\ calls[c].error.wrapped
    /\ calls[c].error.kind \in {"parse", "validation", "typeError", "outputRejected"}
    /\ calls[c].data = NoBrandData /\ ~calls[c].wrote

\* once the completion is there no further one is requested
NotReissued(c) ==
  /\ (InFlight(c) /\ calls'[c].mainCalls # calls[c].mainCalls)
       => /\ calls[c].response = NULL
          /\ \/ calls[c].pc = "sleep"
             \/ calls[c].stage < MainStage(OpOf(c)) /\ calls[c].mainCalls = 0
  /\ (InFlight(c) /\ calls[c].response # NULL)
       => calls'[c].mainCalls = calls[c].mainCalls
  /\ FirstAttemptOne(c)

\* C10, amended: when the completion arrives but is malformed JSON or lacks
\* a required field, extractBrandIdentity fails with its own error and
\* returns and caches nothing; no completion is requested after it, so the
\* invocation's main completion calls are the attempts retryWithBackoff
\* needed to obtain it: one when the first attempt succeeded.
C10_ParseFailureTerminal ==
  /\ [](\A c \in CallIds : FailsAsOperation(c))
  /\ [][\A c \in CallIds : NotReissued(c)]_vars

\* an extraction that failed on a completion without design guidelines
C10_Witness ==
  \E c \in CallIds :
    /\ EndedDefective(c) /\ calls[c].response = "noGuides"
    /\ calls[c].error.kind = "typeError" /\ calls[c].mainCalls = 1

(***************************************************************************)
(* Claims about the code that follows JSON.parse                           *)
(***************************************************************************)
BrandDataInBounds(d) ==
  /\ Len(d.primaryColors) >= 3 /\ Len(d.primaryColors) <= 5
  /\ Len(Trim(d.brandVoice)) >= 20
  /\ Len(d.designGuidelines) = 4

Accepted == built.op = "extract" /\ built.verdict.ok

\* C11: every BrandData that extractBrandIdentity returns or stores in the
\* cache has 3 to 5 primaryColors, a brandVoice of at least 20 characters
\* after trimming and exactly 4 designGuidelines, whatever the completion.
C11_BrandDataBounds ==
  /\ Accepted => BrandDataInBounds(built.verdict.data)
  /\ \A c \in CallIds :
       (Done(c) /\ OpOf(c) = "extract" /\ calls[c].status = "ok")
         => BrandDataInBounds(calls[c].data)
  /\ \A k \in DOMAIN cache :
       cache[k].data.type = "brand" => BrandDataInBounds(cache[k].data)

\* a completion with more colours and guidelines than are kept, accepted
C11_Witness ==
  /\ Accepted
  /\ Len(sample.body.colors) > 5 /\ Len(sample.body.guides) > 4
  /\ Len(built.verdict.data.primaryColors) = 5
  /\ Len(built.verdict.data.designGuidelines) = 4

\* C12: a completion whose primaryColors count is outside 3..5 or whose
\* designGuidelines count is not 4 is rejected, never repaired.
C12_CountsRejected ==
  (built.op = "extract"
     /\ (Len(sample.body.colors) \notin 3..5 \/ Len(sample.body.guides) # 4))
    => ~built.verdict.ok

HexDigits == {"0", "1", "2", "3", "4", "5", "6", "7", "8", "9", "A", "B", "C", "D", "E", "F"}

\* '#' followed by exactly 6 uppercase hexadecimal digits
IsHexColor(c) ==
  /\ Len(c) = 7
  /\ c[1] = "#"
  /\ \A i \in 2..7 : c[i] \in HexDigits

\* C13: every element of primaryColors of an accepted completion is '#'
\* followed by exactly 6 uppercase hexadecimal digits.
C13_ColorsAreHex ==
  Accepted =>
    \A i \in 1..Len(built.verdict.data.primaryColors) :
      IsHexColor(built.verdict.data.primaryColors[i])

ScoreFields ==
  {"score", "colorConsistency", "typographyScale", "spacingRhythm", "accessibility"}

\* 1 to 5 entries; a missing or empty list becomes the single generic string
EntriesKept(kind, given, kept, generic) ==
  /\ Len(kept) >= 1 /\ Len(kept) <= 5
  /\ IF kind = "array" /\ Len(given) > 0
       THEN \A i \in 1..Len(kept) : kept[i] = given[i]
       ELSE kept = generic

ListsKept ==
  /\ EntriesKept(sample.body.feedbackKind, sample.body.feedback,
                 built.result.feedback, DefaultFeedback)
  /\ EntriesKept(sample.body.recommendationsKind, sample.body.recommendations,
                 built.result.recommendations, DefaultRecommendations)

\* C14 as stated: every score is an integer in [0,100], and every value
\* that is missing, null or not a number becomes 50.
C14_NonNumbersBecome50 ==
  built.op = "analyze" =>
    /\ \A f \in ScoreFields :
         /\ built.result[f] \in 0..100
         /\ sample.body[f].kind # "number" => built.result[f] = 50
    /\ ListsKept

\* the integer nearest to the value, halves upward, brought into [0,100]
RoundedIntoRange(tenths, r) ==
  /\ r \in 0..100
  /\ tenths < 0 => r = 0
  /\ tenths > 1000 => r = 100
  /\ (tenths >= 0 /\ tenths <= 1000) => (10 * r - tenths <= 5 /\ tenths - 10 * r < 5)

\* C14, amended: every score is an integer in [0,100]; a value that is
\* missing, null or that Number() turns into NaN becomes 50, and every
\* other value, a number or a value that Number() coerces to one (a boolean,
\* an empty or numeric string), is rounded and clamped; feedback and
\* recommendations hold 1 to 5 entries, a missing or empty list becoming
\* the single generic string.
C14_ScoresClamped ==
  built.op = "analyze" =>
    /\ \A f \in ScoreFields :
         IF sample.body[f].kind \in {"missing", "null", "nan"}
           THEN built.result[f] = 50
           ELSE RoundedIntoRange(sample.body[f].tenths, built.result[f])
    /\ ListsKept

\* an audit with a score below 0, one above 100 and more entries than kept
C14_Witness ==
  /\ built.op = "analyze"
  /\ sample.body.score = Num(-15) /\ built.result.score = 0
  /\ sample.body.colorConsistency = Num(1500) /\ built.result.colorConsistency = 100
  /\ Len(sample.body.feedback) > 5 /\ Len(built.result.feedback) = 5
  /\ sample.body.recommendationsKind = "missing"

(***************************************************************************)
(* Claims about the model the main call names                              *)
(***************************************************************************)
\* the main call of the invocation in slot c has been issued
MainIssued(c) == calls[c].model # NULL

\* the models of the operations other than extractBrandIdentity
FixedModels(c) ==
  /\ OpOf(c) = "analyze" => calls[c].model = "vision"
  /\ OpOf(c) \in {"firefly", "trends"} => calls[c].model = "text"

\* C17, as stated: the main call of extractBrandIdentity names the vision
\* model exactly when a screenshot argument is passed; analyzeDesign names
\* the vision model, generateFireflyPrompt and getViralTrends the text model.
C17_VisionIffScreenshot ==
  \A c \in CallIds :
    MainIssued(c) =>
      /\ OpOf(c) = "extract" =>
            (calls[c].model = "vision" <=> Request(calls[c].req).screenshot # NULL)
      /\ FixedModels(c)

\* C17, amended: the main call of extractBrandIdentity names the vision
\* model exactly when a screenshot argument is passed and is not the empty
\* string; analyzeDesign names the vision model, generateFireflyPrompt and
\* getViralTrends the text model.
C17_VisionIffNonEmptyScreenshot ==
  \A c \in CallIds :
    MainIssued(c) =>
      /\ OpOf(c) = "extract" =>
            (calls[c].model = "vision" <=>
               /\ Request(calls[c].req).screenshot # NULL
               /\ ImageBase64(Request(calls[c].req).screenshot) # << >>)
      /\ FixedModels(c)

\* an extraction called with the encoding of an empty file went to the text
\* model and returned
C17_Witness ==
  \E c \in CallIds :
    /\ Done(c) /\ calls[c].req = "shotEmpty" /\ calls[c].status = "ok"
    /\ calls[c].mainCalls = 1 /\ calls[c].model = "text"

(***************************************************************************)
(* Claims about the order of the steps after the completion                *)
(***************************************************************************)
\* an output moderation check of the extraction in slot c is under way
ModeratingOutput(c) ==
  /\ OpOf(c) = "extract"
  /\ calls[c].pc \in {"modLocal", "modGroq"}
  /\ calls[c].stage > MainStage("extract")

\* C20: extractBrandIdentity validates the parsed response before it
\* moderates it: while brandVoice or designGuidelines of a response is with
\* the output moderation, the response has passed validation.
C20_ValidateBeforeModeration ==
  \A c \in CallIds :
    ModeratingOutput(c) =>
      ValidateBrand(BrandBody(calls[c].response), Request(calls[c].req).screenshot).ok

(***************************************************************************)
(* Claims about what reaches the cache                                     *)
(***************************************************************************)
\* the step adds an entry to the cache or replaces one
WritesCache ==
  /\ cache' # cache
  /\ \E k \in DOMAIN cache' : k \notin DOMAIN cache \/ cache'[k] # cache[k]

\* the step is the return of a caching operation that ran to its end
ReturnsResult(c) ==
  /\ InFlight(c) /\ calls'[c].pc = "done" /\ calls'[c].status = "ok"
  /\ OpOf(c) \in {"extract", "analyze"}
  /\ calls[c].stage > MainStage(OpOf(c)) \/ calls[c].pc = "llm"
  /\ \A k \in DOMAIN cache' :
       (k \notin DOMAIN cache \/ cache'[k] # cache[k]) =>
         k = calls'[c].key /\ cache'[k].data = calls'[c].data

\* the value the call returns is what validation and normalisation make of
\* the completion it received
PassedValidation(call) ==
  IF Request(call.req).op = "extract"
    THEN /\ BrandBody(call.response).json
         /\ ValidateBrand(BrandBody(call.response), Request(call.req).screenshot).ok
         /\ call.data =
              ValidateBrand(BrandBody(call.response), Request(call.req).screenshot).data
    ELSE /\ AuditBody(call.response).json
         /\ call.data = BuildAnalysis(AuditBody(call.response))

\* C21: the cache is written only by the return of a successful
\* extractBrandIdentity or analyzeDesign: a call that throws adds or
\* replaces no entry, and every entry holds a value that passed validation
\* and normalisation and was not rejected by the output moderation.
\* The cache starts empty, so it is enough that every step that writes
\* an entry writes such a value.
C21_CacheWrittenOnSuccess ==
  [][WritesCache =>
       \E c \in CallIds : ReturnsResult(c) /\ PassedValidation(calls'[c])]_vars

\* a call found an expired entry under its key, removed it, failed
\* validation after its completion, and left the cache empty
C21_Witness ==
  \E c \in CallIds :
    /\ Done(c) /\ calls[c].status = "error" /\ calls[c].error.kind = "validation"
    /\ calls[c].evicted /\ calls[c].mainCalls = 1
    /\ cache = EmptyCache

(***************************************************************************)
(* Claims about overlapping calls                                          *)
(***************************************************************************)
TwinDone(c) == twins.calls[c].pc = "done"

HoldsLastResult ==
  LET key == BrandCacheKey(Request(TwinRequest)) IN
  IF twins.last = 0 THEN key \notin DOMAIN cache
  ELSE /\ key \in DOMAIN cache
       /\ cache[key].by = twins.last
       /\ cache[key].data = twins.calls[twins.last].data
       /\ twins.calls[twins.last].status = "ok"
       /\ BrandDataInBounds(cache[key].data)

CredentialChanges == client' # client \/ apiKey' # apiKey

\* the step invokes a caching operation in slot c, with no credential
\* configured, while a fresh entry is stored under the key of the call
InvokedOnEntryWithoutKey(c) ==
  /\ Invokes(c) /\ client.isNull
  /\ calls'[c].key \in DOMAIN cache
  /\ CacheFresh(cache[calls'[c].key], now)

\* C25: setApiKey leaves the cache as it is, whatever its argument; an
\* entry stored while a credential was configured is still returned by a
\* cache hit after the credential has been cleared or replaced.
C25_SetApiKeyKeepsCache ==
  [][/\ CredentialChanges => cache' = cache
     /\ \A c \in CallIds :
          InvokedOnEntryWithoutKey(c) =>
            /\ calls'[c].pc = "done" /\ calls'[c].hit /\ calls'[c].status = "ok"
            /\ calls'[c].data = cache[calls'[c].key].data]_vars

\* a call made after the credential was cleared was served from the cache
C25_Witness ==
  \E c \in CallIds :
    /\ Done(c) /\ calls[c].hit /\ calls[c].status = "ok"
    /\ client.isNull /\ apiKey.isNull
    /\ calls[c].key \in DOMAIN cache

\* the stored key is a non-empty string without blanks at its ends, and the
\* client was built with it
StoredKeyTrimmed ==
  ~apiKey.isNull =>
    /\ Len(apiKey.chars) > 0
    /\ ~IsSpace(apiKey.chars[1]) /\ ~IsSpace(apiKey.chars[Len(apiKey.chars)])
    /\ client.apiKey = apiKey.chars

\* the argument is not a string, or is empty, or consists of blanks
BlankKey(input) ==
  \/ ~input.isString
  \/ \A i \in 1..Len(input.chars) : IsSpace(input.chars[i])

\* C26: after any sequence of setApiKey calls the SDK client is non-null
\* exactly when the stored apiKey is non-null, the stored apiKey is null or
\* a non-empty string with no blank at either end, and a call with an
\* empty, blank or non-string argument resets both to null.
C26_ClientMatchesKey ==
  /\ []((client.isNull <=> apiKey.isNull) /\ StoredKeyTrimmed)
  /\ [][\A input \in KeyInputs :
          (SetApiKey(input) /\ BlankKey(input)) => (client'.isNull /\ apiKey'.isNull)]_vars

\* setApiKey stored a key while entries were in the cache
C26_Witness ==
  /\ ~client.isNull /\ ~apiKey.isNull
  /\ apiKey.chars = << "k" >> /\ client.apiKey = << "k" >>
  /\ cache # EmptyCache

(***************************************************************************)
(* Claims about the operations that keep no result                         *)
(***************************************************************************)
\* the step belongs to a generateFireflyPrompt or getViralTrends call
StepOfUncached(c) ==
  /\ calls'[c] # calls[c]
  /\ Request(calls'[c].req).op \in {"firefly", "trends"}

\* C27: generateFireflyPrompt and getViralTrends never read from or write to
\* the response cache: no step of such a call changes the cache, the call
\* computes no key and is never served from an entry, and every call that
\* returns a result issued a main completion call of its own.
C27_UncachedOperations ==
  [][\A c \in CallIds :
       StepOfUncached(c) =>
         /\ cache' = cache
         /\ calls'[c].key = NoKey /\ ~calls'[c].hit /\ ~calls'[c].evicted
         /\ ~calls'[c].wrote
         /\ (calls'[c].pc = "done" /\ calls'[c].status = "ok") =>
              calls'[c].mainCalls >= 1]_vars

\* generateFireflyPrompt returned a result after its own completion call
\* while the cache held an entry
C27_Witness ==
  \E c \in CallIds :
    /\ Done(c) /\ OpOf(c) = "firefly" /\ calls[c].status = "ok"
    /\ calls[c].mainCalls = 1 /\ ~calls[c].hit
    /\ cache # EmptyCache

(***************************************************************************)
(* Claims about the Settings panel                                         *)
(***************************************************************************)
\* the storage item is a string with something other than blanks in it
NonBlankItem(item) == item.present /\ Trim(item.chars) # << >>

\* the step is the end of a handler whose storage write succeeded
WriteSucceeded ==
  /\ settings.pc \in {"saving", "clearing"}
  /\ settings'.last \in {"saved", "cleared"}
  /\ settings'.stored = Item(settings.pending)

\* the step is the end of a handler whose storage write was rejected
WriteRejected ==
  /\ settings.mounted
  /\ settings.pc \in {"saving", "clearing"} /\ settings'.pc = "idle"
  /\ settings'.last \in {"saveFailed", "clearFailed"}

\* C28: handleSave and handleClear update the groqClient credential only
\* after the storage write has succeeded: a step that changes the credential
\* is the completion of a successful write, a write that rejects leaves the
\* credential as it was, and once a handleSave or handleClear has completed
\* successfully groqClient is configured exactly when the value stored under
\* 'groqApiKey' is non-blank.
C28_CredentialFollowsStorage ==
  /\ []((settings.mounted /\ settings.synced) =>
          (~client.isNull <=> NonBlankItem(settings.stored)))
  /\ [][(CredentialChanges => WriteSucceeded)
          /\ (WriteRejected => (client' = client /\ apiKey' = apiKey))]_vars

\* a key was saved, then the save of a blank field was rejected: the key
\* is still stored and still the credential
C28_Witness ==
  /\ settings.mounted /\ settings.synced
  /\ settings.last = "saveFailed" /\ settings.pending = << " " >>
  /\ settings.stored = Item(<< " ", "k", " " >>)
  /\ ~client.isNull /\ apiKey.chars = << "k" >>

(***************************************************************************)
(* Claims about categorizeError                                            *)
(***************************************************************************)
\* the error is a timeout: code ECONNABORTED or 'timeout' in the message
IsTimeout(err) == err.code = "ECONNABORTED" \/ err.message = "timeout"

\* the case the decision order stops at
DecidedBy(err, online) ==
  CASE ~online -> "offline"
    [] online /\ err.status = 429 -> "rateLimit"
    [] online /\ err.status \in {401, 403} -> "auth"
    [] online /\ err.status \notin {429, 401, 403} /\ err.status >= 500 -> "server"
    [] online /\ err.status \notin {429, 401, 403} /\ err.status < 500 /\ IsTimeout(err)
         -> "timeout"
    [] OTHER -> "other"

\* the message of each case
MessageOf(case, err) ==
  CASE case = "offline" -> {MsgOffline}
    [] case = "rateLimit" -> {MsgRateLimit}
    [] case = "auth" -> {MsgUnauthorized, MsgForbidden}
    [] case = "server" -> {MsgServer}
    [] case = "timeout" -> {MsgTimeout}
    [] OTHER -> {IF err.message # NULL THEN err.message ELSE MsgUnexpected}

\* the step is a failed attempt
AttemptFailed == Len(oplog') = Len(oplog) + 1 /\ ~oplog'[Len(oplog')].ok

\* C30: categorizeError follows a fixed decision order: offline is
\* retryable whatever the status; otherwise 429 is retryable, 401 and 403
\* are not, a status of 500 or more is retryable, a timeout is retryable,
\* and every other error is retryable.  A failed attempt is followed by a
\* wait exactly when its error is retryable and attempts remain, and the
\* error thrown carries the message of the case that decided.
C30_DecisionOrder ==
  [][AttemptFailed =>
       LET e == oplog'[Len(oplog')]
           case == DecidedBy(e.err, e.online)
       IN
       /\ (rb'.phase = "waiting") <=> (case # "auth" /\ rb.attempt < rb.maxRetries)
       /\ rb'.phase = "rejected" =>
            /\ rb'.isRetryable = (case # "auth")
            /\ rb'.error \in MessageOf(case, e.err)]_vars

\* an attempt failed online with status 401 and a timeout message and was
\* not retried, after an attempt that failed offline with status 403 and
\* was retried
C30_Witness ==
  /\ rb.phase = "rejected" /\ ~rb.isRetryable /\ rb.error = MsgUnauthorized
  /\ rb.attempt = 1 /\ rb.maxRetries = 1
  /\ Len(oplog) = 2
  /\ oplog[1].err = MkErr(403, NULL, "network") /\ ~oplog[1].online
  /\ oplog[2].err = MkErr(401, "ECONNABORTED", "timeout") /\ oplog[2].online

====
